---- MODULE Spec2Model ----
(***************************************************************************)
(* Model of the JNI layer of KotlinPdfium (src/main/cpp/pdfium_jni.cpp):   *)
(* the library reference count, the document buffer table g_docBuffers,    *)
(* and the handle discipline of the native operations.  The wrapped        *)
(* library is modelled at its call sites: a handle allocator that may     *)
(* reuse the value of a closed handle, and that records every call made   *)
(* with a null or an already closed handle.  The render operations are    *)
(* modelled over one pixel surface and one page, the string getters over  *)
(* the bytes the library writes and the Java string made from them.  The  *)
(* calls that pass a caller string, the form-fill environment, the save   *)
(* through the write callback and the queries that answer into a caller   *)
(* array each have a specification of their own.                          *)
(***************************************************************************)
EXTENDS Integers, FiniteSets, Sequences, TLC

\* ---------------------------------------------------------------- bounds
NumHandles == 2
MaxBufs == 3
MaxFileSize == 2
MaxLibCalls == 6
NumObjHandles == 1
MaxWidth == 2
MaxText == 2
MaxFormCalls == 3
MaxBlocks == 3
MaxBlockSize == 3
MaxValue == 1

\* ------------------------------------------------------------- constants
NullHandle == 0
NoBuffer == 0

Handles == 1..NumHandles
Buffers == 1..MaxBufs
ObjHandles == 1..NumObjHandles
\* The kinds of handle derived from a document that the model follows.
ObjKinds == {"page", "textpage", "search", "annot", "pageobj"}
\* A handle value the library has not given out / has given out and closed.
Unused == [st |-> "unused", doc |-> NullHandle]
Closed == [st |-> "closed", doc |-> NullHandle]
Live(d) == [st |-> "live", doc |-> d]
\* A pixel surface is one row of pixels 1..width.
Pixels == 1..MaxWidth
\* AndroidBitmapInfo: the fields the code reads.
NoInfo == [width |-> 0, format |-> "ANDROID_BITMAP_FORMAT_NONE"]
\* startX and drawWidth of a render call.
NoRegion == [startX |-> 0, drawWidth |-> 0]
\* The native render operations that bind a caller surface: whether the
\* operation takes a form handle, whether it rejects a surface of size 0,
\* whether it fills the surface before rasterizing, and whether it starts a
\* progressive render.
nativeRenderPageBitmap ==
    [name |-> "nativeRenderPageBitmap", needsForm |-> FALSE,
     checksSize |-> TRUE, fills |-> TRUE, progressive |-> FALSE]
nativeFPDFFFLDraw ==
    [name |-> "nativeFPDFFFLDraw", needsForm |-> TRUE,
     checksSize |-> FALSE, fills |-> FALSE, progressive |-> FALSE]
nativeRenderPageBitmapStart ==
    [name |-> "nativeRenderPageBitmapStart", needsForm |-> FALSE,
     checksSize |-> FALSE, fills |-> TRUE, progressive |-> TRUE]
nativeRenderPageContinue ==
    [name |-> "nativeRenderPageContinue", needsForm |-> FALSE,
     checksSize |-> FALSE, fills |-> FALSE, progressive |-> TRUE]
nativeRenderPageClose ==
    [name |-> "nativeRenderPageClose", needsForm |-> FALSE,
     checksSize |-> FALSE, fills |-> FALSE, progressive |-> TRUE]
NoRenderOp ==
    [name |-> "none", needsForm |-> FALSE,
     checksSize |-> FALSE, fills |-> FALSE, progressive |-> FALSE]
SurfaceOps ==
    {nativeRenderPageBitmap, nativeFPDFFFLDraw, nativeRenderPageBitmapStart}

\* A variable-length string getter: the encoding of the library's string
\* (enc), whether the library counts bytes or 16-bit units (count), the size
\* at or below which the code returns early (minSize) and what it returns
\* then (none), what it returns for a null handle (onNull), the number of
\* array elements it allocates and the length it passes to the fill call as
\* multiples of the size (allocHalf: size / 2 elements; fillTwice: size * 2),
\* and how it builds the result: NewString of size / 2 - 1 units ("half"), of
\* size - 1 units ("units"), or NewStringUTF up to the first NUL ("nul").
nativeGetMetaText ==
    [name |-> "nativeGetMetaText", enc |-> "utf16", count |-> "bytes",
     minSize |-> 0, none |-> "empty", onNull |-> "null",
     allocHalf |-> FALSE, fillTwice |-> FALSE, conv |-> "half"]
nativeGetPageLabel ==
    [name |-> "nativeGetPageLabel", enc |-> "utf16", count |-> "bytes",
     minSize |-> 0, none |-> "empty", onNull |-> "empty",
     allocHalf |-> FALSE, fillTwice |-> TRUE, conv |-> "half"]
nativeGetBookmarkTitle ==
    [name |-> "nativeGetBookmarkTitle", enc |-> "utf16", count |-> "bytes",
     minSize |-> 0, none |-> "empty", onNull |-> "null",
     allocHalf |-> FALSE, fillTwice |-> FALSE, conv |-> "half"]
nativeGetAttachmentName ==
    [name |-> "nativeGetAttachmentName", enc |-> "utf16", count |-> "bytes",
     minSize |-> 0, none |-> "empty", onNull |-> "null",
     allocHalf |-> FALSE, fillTwice |-> FALSE, conv |-> "half"]
nativeStructElementGetType ==
    [name |-> "nativeStructElementGetType", enc |-> "utf16", count |-> "bytes",
     minSize |-> 0, none |-> "empty", onNull |-> "null",
     allocHalf |-> FALSE, fillTwice |-> FALSE, conv |-> "half"]
nativeGetFormFieldName ==
    [name |-> "nativeGetFormFieldName", enc |-> "utf16", count |-> "bytes",
     minSize |-> 2, none |-> "empty", onNull |-> "null",
     allocHalf |-> TRUE, fillTwice |-> FALSE, conv |-> "half"]
nativeGetAnnotContents ==
    [name |-> "nativeGetAnnotContents", enc |-> "utf16", count |-> "bytes",
     minSize |-> 2, none |-> "empty", onNull |-> "null",
     allocHalf |-> TRUE, fillTwice |-> FALSE, conv |-> "half"]
nativeGetWebLinkURL ==
    [name |-> "nativeGetWebLinkURL", enc |-> "utf16", count |-> "units",
     minSize |-> 0, none |-> "empty", onNull |-> "null",
     allocHalf |-> FALSE, fillTwice |-> FALSE, conv |-> "units"]
nativeGetLinkURI ==
    [name |-> "nativeGetLinkURI", enc |-> "ascii", count |-> "bytes",
     minSize |-> 0, none |-> "null", onNull |-> "null",
     allocHalf |-> FALSE, fillTwice |-> FALSE, conv |-> "nul"]
nativeGetSignatureReason ==
    [name |-> "nativeGetSignatureReason", enc |-> "utf16", count |-> "bytes",
     minSize |-> 0, none |-> "empty", onNull |-> "null",
     allocHalf |-> FALSE, fillTwice |-> FALSE, conv |-> "nul"]
nativeGetSignatureTime ==
    [name |-> "nativeGetSignatureTime", enc |-> "ascii", count |-> "bytes",
     minSize |-> 0, none |-> "empty", onNull |-> "null",
     allocHalf |-> FALSE, fillTwice |-> FALSE, conv |-> "nul"]
nativeGetActionFilePath ==
    [name |-> "nativeGetActionFilePath", enc |-> "utf8", count |-> "bytes",
     minSize |-> 0, none |-> "empty", onNull |-> "null",
     allocHalf |-> FALSE, fillTwice |-> FALSE, conv |-> "nul"]
NoGetter ==
    [name |-> "none", enc |-> "utf16", count |-> "bytes",
     minSize |-> 0, none |-> "empty", onNull |-> "null",
     allocHalf |-> FALSE, fillTwice |-> FALSE, conv |-> "half"]
StringGetters ==
    {nativeGetMetaText, nativeGetPageLabel, nativeGetBookmarkTitle,
     nativeGetAttachmentName, nativeStructElementGetType,
     nativeGetFormFieldName, nativeGetAnnotContents, nativeGetWebLinkURL,
     nativeGetLinkURI,
     nativeGetSignatureReason, nativeGetSignatureTime,
     nativeGetActionFilePath}

\* What a getter gives back: a null reference or a string.
NullString == [isNull |-> TRUE, chars |-> << >>]
JavaString(s) == [isNull |-> FALSE, chars |-> s]
\* The field of the library's object: absent, or a text.
Absent == [present |-> FALSE, chars |-> << >>]
Text(s) == [present |-> TRUE, chars |-> s]
\* A callback block and its environment: the document, the block
\* (none / allocated / freed), whether its Release member is set, the
\* environment the library made from it (none / live / exited), how often the
\* block was deleted and by what.
NoForm ==
    [doc |-> 0, block |-> "none", release |-> FALSE, env |-> "none",
     frees |-> 0, freedBy |-> "none"]
\* A WriteBlock call: the size asked, the bytes fwrite wrote, the value the
\* callback returned.
NoWrite == [size |-> 0, wrote |-> 0, r |-> 1]
\* What the library is handed as a wide string: the units it finds from the
\* pointer on, and whether the pointer is a buffer this layer built.
NothingPassed == [units |-> << >>, built |-> FALSE, passed |-> FALSE]
Threads == {"t1", "t2"}
MainThread == {"t1"}

VARIABLES
    \* process-wide state of the layer
    libraryReferenceCount, g_docBuffers,
    \* the wrapped library, seen from its call sites
    libInitialized, libFaults,
    libDocs, docKind, docBuf, objs,
    \* the heap: the live buffers, and whether a buffer was deleted while not live
    heap, doubleFree,
    \* the process: aborted by an exception leaving a native frame or by a
    \* library call on a dangling handle
    aborted,
    \* the caller: handle values it was given, calls it made
    issued, nInit, nDestroy, underflow,
    \* each thread's position and locals
    pc, op, doc, buffer, fileSize, remaining, ptr, ret, cPassword, elements,
    tmp, didLib, loaderCalled, cause, closing, gAtCall, argState, libArg,
    \* the pixel surface of a render call: whether its pixels are locked, the
    \* pixels filled white and the pixels rasterized since the call began
    pixelsLocked, white, written,
    \* the library bitmap over the pixels, and the render context the library
    \* keeps for the page from a progressive start until its close
    fpdfBitmap, spanCtx,
    \* a render call's arguments and locals, and what it did
    rop, info, region, callerFlags, renderAnnot, probe, rflags, status,
    nLock, nUnlock, rasterCalled, rasterBad, spanAtCall,
    \* a string getter call: the getter, the field of the library's object,
    \* the result of the size query, the elements allocated, the buffer after
    \* the fill call and the count that call returned, the number of size
    \* queries and fill calls made, and the result
    getter, libText, querySize, allocated, sbuf, writtenCount, nQuery, nFill,
    result,
    \* a call that hands a caller string to the library: the operation, the
    \* 16-bit units of the caller's string, the buffer the call built, the
    \* number of buffers it allocated and deleted, and what the library was
    \* handed
    wop, jstr, wbuf, nNewW, nDelW, libGot,
    \* the form-fill environments: for the n-th nativeInitFormFillEnvironment
    \* call that allocated a callback block, the block and the environment the
    \* library made for it; the number of such calls; the operation, block and
    \* form handle of the call in progress
    forms, nForms, fop, formInfo, formHandle,
    \* a nativeSaveDocument call: the destination file (none / failed / open /
    \* closed), the number of fclose calls, the sizes of the blocks the library
    \* has yet to write, the last WriteBlock call, whether some fwrite wrote
    \* less than asked, whether the library save was called, and its result
    file, nClose, blocks, lastWrite, shortWrite, saveCalled, success,
    \* a query that answers into a caller's array: the query, the array and
    \* what it held at the call, the out-locals of the native frame, whether
    \* the library was called and succeeded, and the values it produced
    aop, arr, arrAtCall, locals, libCalled, libOk, libOut

libVars == <<libraryReferenceCount, libInitialized,
             libFaults, nInit, nDestroy, underflow, tmp, didLib>>
docVars == <<g_docBuffers, libDocs, docKind, docBuf, heap, doubleFree, issued,
             doc, buffer, fileSize, remaining, ptr, cPassword, elements,
             loaderCalled, cause, closing, gAtCall>>
faultVars == <<aborted, libArg>>
objVars == <<objs, argState>>
ctlVars == <<pc, op, ret>>
renderVars == <<pixelsLocked, white, written, fpdfBitmap, spanCtx, rop, info,
                region, callerFlags, renderAnnot, probe, rflags, status,
                nLock, nUnlock, rasterCalled, rasterBad, spanAtCall>>
stringVars == <<getter, libText, querySize, allocated, sbuf, writtenCount, nQuery,
                nFill, result>>
wideVars == <<wop, jstr, wbuf, nNewW, nDelW, libGot>>
formVars == <<forms, nForms, fop, formInfo, formHandle>>
saveVars == <<file, nClose, blocks, lastWrite, shortWrite, saveCalled, success>>
arrayVars == <<aop, arr, arrAtCall, locals, libCalled, libOk, libOut>>
besidesWide == <<formVars, saveVars, arrayVars>>
besidesForm == <<wideVars, saveVars, arrayVars>>
besidesSave == <<wideVars, formVars, arrayVars>>
besidesArray == <<wideVars, formVars, saveVars>>
lateVars == <<wideVars, formVars, saveVars, arrayVars>>
otherVars == <<renderVars, stringVars, lateVars>>
vars == <<libVars, docVars, faultVars, objVars, otherVars, ctlVars>>

\* ------------------------------------------------------------- helpers
\* std::map<FPDF_DOCUMENT, char*>: operator[] assignment, find, erase
\* Faulty variant: the assignment is lost: the buffer is not registered
MapAssign_Lost(m, k, v) == m
MapAssign(m, k, v) == [h \in (DOMAIN m) \cup {k} |-> IF h = k THEN v ELSE m[h]]
\* Faulty variant: the entry is left in the table after its buffer was deleted
MapErase_Kept(m, k) == m
MapErase(m, k) == [h \in (DOMAIN m) \ {k} |-> m[h]]
MapHas(m, k) == k \in DOMAIN m

\* new char[n]: any address that is not live (a freed one may come back)
FreeBuffers == Buffers \ heap

\* delete[] of a buffer; deleting one that is not live is recorded
Delete(b) ==
    /\ heap' = heap \ {b}
    /\ doubleFree' = (doubleFree \/ b \notin heap)

\* What the loader may return: null, or a handle value that is not the value
\* of a currently open document (the value of a closed one may come back).
LibLoadResults == {NullHandle} \cup (Handles \ libDocs)

\* env->GetStringUTFChars(password) when password != nullptr
AcquirePassword(hasPw) == IF hasPw THEN "held" ELSE "null"
\* env->ReleaseStringUTFChars(password, cPassword) when password != nullptr
ReleasePassword(p) == IF p = "held" THEN "released" ELSE p

Init ==
    /\ libraryReferenceCount = 0
    /\ g_docBuffers = << >>
    /\ libInitialized = FALSE
    /\ libFaults = {}
    /\ libDocs = {}
    /\ docKind = [h \in Handles |-> "none"]
    /\ docBuf = [h \in Handles |-> NoBuffer]
    /\ objs = [k \in ObjKinds |-> [h \in ObjHandles |-> Unused]]
    /\ heap = {}
    /\ doubleFree = FALSE
    /\ aborted = FALSE
    /\ issued = {}
    /\ nInit = 0
    /\ nDestroy = 0
    /\ underflow = FALSE
    /\ pc = [t \in Threads |-> "idle"]
    /\ op = [t \in Threads |-> "none"]
    /\ doc = [t \in Threads |-> NullHandle]
    /\ buffer = [t \in Threads |-> NoBuffer]
    /\ fileSize = [t \in Threads |-> 0]
    /\ remaining = [t \in Threads |-> 0]
    /\ ptr = [t \in Threads |-> 0]
    /\ ret = [t \in Threads |-> 0]
    /\ cPassword = [t \in Threads |-> "null"]
    /\ elements = [t \in Threads |-> "none"]
    /\ tmp = [t \in Threads |-> 0]
    /\ didLib = [t \in Threads |-> FALSE]
    /\ loaderCalled = [t \in Threads |-> FALSE]
    /\ cause = [t \in Threads |-> "none"]
    /\ closing = [t \in Threads |-> "none"]
    /\ gAtCall = [t \in Threads |-> << >>]
    /\ argState = [t \in Threads |-> "none"]
    /\ libArg = [t \in Threads |-> "none"]
    /\ pixelsLocked = FALSE
    /\ white = {}
    /\ written = {}
    /\ fpdfBitmap = "none"
    /\ spanCtx = "none"
    /\ rop = NoRenderOp
    /\ info = NoInfo
    /\ region = NoRegion
    /\ callerFlags = {}
    /\ renderAnnot = FALSE
    /\ probe = "none"
    /\ rflags = {}
    /\ status = "none"
    /\ nLock = 0
    /\ nUnlock = 0
    /\ rasterCalled = FALSE
    /\ rasterBad = FALSE
    /\ spanAtCall = "none"
    /\ getter = NoGetter
    /\ libText = Absent
    /\ querySize = 0
    /\ allocated = 0
    /\ sbuf = << >>
    /\ writtenCount = 0
    /\ nQuery = 0
    /\ nFill = 0
    /\ result = NullString
    /\ wop = "none"
    /\ jstr = << >>
    /\ wbuf = << >>
    /\ nNewW = 0
    /\ nDelW = 0
    /\ libGot = NothingPassed
    /\ forms = [i \in 1..MaxFormCalls |-> NoForm]
    /\ nForms = 0
    /\ fop = "none"
    /\ formInfo = 0
    /\ formHandle = 0
    /\ file = "none"
    /\ nClose = 0
    /\ blocks = << >>
    /\ lastWrite = NoWrite
    /\ shortWrite = FALSE
    /\ saveCalled = FALSE
    /\ success = FALSE
    /\ aop = "none"
    /\ arr = << >>
    /\ arrAtCall = << >>
    /\ locals = << >>
    /\ libCalled = FALSE
    /\ libOk = FALSE
    /\ libOut = << >>

\* A native call starts: the thread is between calls and the process runs.
CanCall(t) == pc[t] = "idle" /\ ~aborted

\* The locals a document call resets on entry.
EnterDocCall(t, name) ==
    /\ op' = [op EXCEPT ![t] = name]
    /\ gAtCall' = [gAtCall EXCEPT ![t] = g_docBuffers]
    /\ loaderCalled' = [loaderCalled EXCEPT ![t] = FALSE]
    /\ closing' = [closing EXCEPT ![t] = "none"]


\* A native call returns v; its locals die with the frame.
FinishCall(t, v) ==
    /\ ret' = [ret EXCEPT ![t] = v]
    /\ pc' = [pc EXCEPT ![t] = "returned"]
    /\ doc' = [doc EXCEPT ![t] = NullHandle]
    /\ buffer' = [buffer EXCEPT ![t] = NoBuffer]
    /\ fileSize' = [fileSize EXCEPT ![t] = 0]
    /\ remaining' = [remaining EXCEPT ![t] = 0]
    /\ ptr' = [ptr EXCEPT ![t] = 0]

\* `delete[] buffer` when a read fails
FreeOnReadFailure(b) == Delete(b)
\* Faulty variant: the buffer of a rejected document is not deleted
FreeOnLoadFailure_Leaks(b) == UNCHANGED <<heap, doubleFree>>
\* `delete[] buffer` / `delete[] docBuffer` when the loader yields no document
FreeOnLoadFailure(b) == Delete(b)

\* ------------------------------------------- nativeOpenDocument (fd)
\* `while (remaining > 0)`: the loop goes on
ReadLoopContinues(rem) == rem > 0
\* Faulty variant: only a negative result ends the loop: a read of 0 is retried
ReadFails_NegativeOnly(bytesRead) == bytesRead < 0
\* `if (bytesRead <= 0)`: the read failed or hit the end of the file
ReadFails(bytesRead) == bytesRead <= 0
\* `if (fileSize <= 0)`: the size query failed or the file is empty
SizeRejected(size) == size <= 0

\* Entry: password chars, lseek for the size, new (std::nothrow) char[fileSize]
\* (b = NoBuffer: the allocation failed and yielded nullptr).
OpenDocument_Call(t) ==
    /\ CanCall(t)
    /\ EnterDocCall(t, "nativeOpenDocument")
    /\ \E hasPw \in BOOLEAN, size \in -1..MaxFileSize,
          b \in FreeBuffers \cup {NoBuffer} :
        IF SizeRejected(size) \/ b = NoBuffer
          THEN /\ cPassword' = [cPassword EXCEPT
                     ![t] = ReleasePassword(AcquirePassword(hasPw))]
               /\ cause' = [cause EXCEPT ![t] = IF size <= 0 THEN "size" ELSE "alloc"]
               /\ FinishCall(t, NullHandle)
               /\ UNCHANGED heap
          ELSE /\ cPassword' = [cPassword EXCEPT ![t] = AcquirePassword(hasPw)]
               /\ cause' = [cause EXCEPT ![t] = "none"]
               /\ heap' = heap \cup {b}
               /\ buffer' = [buffer EXCEPT ![t] = b]
               /\ fileSize' = [fileSize EXCEPT ![t] = size]
               /\ remaining' = [remaining EXCEPT ![t] = size]
               /\ ptr' = [ptr EXCEPT ![t] = 0]
               /\ doc' = [doc EXCEPT ![t] = NullHandle]
               /\ pc' = [pc EXCEPT ![t] = "od_read"]
               /\ UNCHANGED ret
    /\ elements' = [elements EXCEPT ![t] = "none"]
    /\ UNCHANGED <<libVars, faultVars, objVars, otherVars, g_docBuffers, libDocs, docKind, docBuf,
                   doubleFree, issued>>

\* One iteration of the read loop: read(fd, ptr, remaining) yields -1, 0 or
\* 1..remaining bytes.
OpenDocument_Read(t) ==
    /\ pc[t] = "od_read" /\ ~aborted
    /\ \E bytesRead \in -1..remaining[t] :
        /\ cause' = [cause EXCEPT ![t] = IF bytesRead <= 0 THEN "read" ELSE "none"]
        /\ IF ReadFails(bytesRead)
             THEN /\ FreeOnReadFailure(buffer[t])
                  /\ cPassword' = [cPassword EXCEPT ![t] = ReleasePassword(@)]
                  /\ FinishCall(t, NullHandle)
             ELSE /\ ptr' = [ptr EXCEPT ![t] = @ + bytesRead]
                  /\ remaining' = [remaining EXCEPT ![t] = @ - bytesRead]
                  /\ pc' = [pc EXCEPT ![t] =
                        IF ReadLoopContinues(remaining[t] - bytesRead)
                        THEN "od_read" ELSE "od_load"]
                  /\ UNCHANGED <<heap, doubleFree, cPassword, ret, doc, buffer,
                                 fileSize>>
    /\ UNCHANGED <<libVars, faultVars, objVars, otherVars, g_docBuffers, libDocs, docKind, docBuf,
                   issued, elements, loaderCalled, closing, gAtCall, op>>

\* FPDF_LoadMemDocument(buffer, size, cPassword), the release of the caller's
\* arrays, and the `if (!doc)` branch; shared by the fd and the bytes path.
LoadMemDocument(t, kind, next) ==
    \E d \in LibLoadResults :
        /\ loaderCalled' = [loaderCalled EXCEPT ![t] = TRUE]
        /\ cPassword' = [cPassword EXCEPT ![t] = ReleasePassword(@)]
        /\ elements' = [elements EXCEPT ![t] = IF @ = "held" THEN "released" ELSE @]
        /\ IF d = NullHandle
             THEN /\ FreeOnLoadFailure(buffer[t])
                  /\ cause' = [cause EXCEPT ![t] = "load"]
                  /\ FinishCall(t, NullHandle)
                  /\ UNCHANGED <<libDocs, docKind, docBuf>>
             ELSE /\ libDocs' = libDocs \cup {d}
                  /\ docKind' = [docKind EXCEPT ![d] = kind]
                  /\ docBuf' = [docBuf EXCEPT ![d] = buffer[t]]
                  /\ doc' = [doc EXCEPT ![t] = d]
                  /\ pc' = [pc EXCEPT ![t] = next]
                  /\ UNCHANGED <<heap, doubleFree, ret, cause, buffer, fileSize,
                                 remaining, ptr>>

OpenDocument_Load(t) ==
    /\ pc[t] = "od_load" /\ ~aborted
    /\ LoadMemDocument(t, "fd", "od_register")
    /\ UNCHANGED <<libVars, faultVars, objVars, otherVars, g_docBuffers, issued, closing, gAtCall, op>>

\* `g_docBuffers[doc] = buffer; return (jlong) doc;`
RegisterBuffer(t) ==
    /\ g_docBuffers' = MapAssign(g_docBuffers, doc[t], buffer[t])
    /\ issued' = issued \cup {doc[t]}
    /\ FinishCall(t, doc[t])

OpenDocument_Register(t) ==
    /\ pc[t] = "od_register" /\ ~aborted
    /\ RegisterBuffer(t)
    /\ UNCHANGED <<libVars, faultVars, objVars, otherVars, libDocs, docKind, docBuf, heap,
                   doubleFree, cPassword, elements, loaderCalled, cause,
                   closing, gAtCall, op>>

\* ---------------------------------------- nativeOpenMemDocument (bytes)
\* Entry: password chars, GetArrayLength, GetByteArrayElements,
\* `new char[length]` (the throwing form) and memcpy.  A failed allocation
\* (b = NoBuffer) throws std::bad_alloc out of the native frame: the process
\* is aborted with the password chars and the array elements still held.
OpenMemDocument_Call(t) ==
    /\ CanCall(t)
    /\ EnterDocCall(t, "nativeOpenMemDocument")
    /\ \E hasPw \in BOOLEAN, length \in 0..MaxFileSize,
          b \in FreeBuffers \cup {NoBuffer} :
        /\ fileSize' = [fileSize EXCEPT ![t] = length]
        /\ cPassword' = [cPassword EXCEPT ![t] = AcquirePassword(hasPw)]
        /\ elements' = [elements EXCEPT ![t] = "held"]
        /\ buffer' = [buffer EXCEPT ![t] = b]
        /\ IF b # NoBuffer
             THEN /\ heap' = heap \cup {b}
                  /\ cause' = [cause EXCEPT ![t] = "none"]
                  /\ pc' = [pc EXCEPT ![t] = "omd_load"]
                  /\ UNCHANGED aborted
             ELSE /\ aborted' = TRUE
                  /\ cause' = [cause EXCEPT ![t] = "alloc"]
                  /\ pc' = [pc EXCEPT ![t] = "thrown"]
                  /\ UNCHANGED heap
    /\ UNCHANGED <<libVars, objVars, otherVars, libArg, g_docBuffers, libDocs,
                   docKind, docBuf, doubleFree, issued, ret, doc, remaining, ptr>>

OpenMemDocument_Load(t) ==
    /\ pc[t] = "omd_load" /\ ~aborted
    /\ LoadMemDocument(t, "mem", "omd_register")
    /\ UNCHANGED <<libVars, faultVars, objVars, otherVars, g_docBuffers, issued, closing, gAtCall, op>>

OpenMemDocument_Register(t) ==
    /\ pc[t] = "omd_register" /\ ~aborted
    /\ RegisterBuffer(t)
    /\ UNCHANGED <<libVars, faultVars, objVars, otherVars, libDocs, docKind, docBuf, heap,
                   doubleFree, cPassword, elements, loaderCalled, cause,
                   closing, gAtCall, op>>

\* --------------------------- nativeOpenDocumentPath / nativeNewDocument
\* A document the library opens or creates by itself: no buffer of this layer.
LibraryOwnedDocument(t, name, kind) ==
    /\ CanCall(t)
    /\ EnterDocCall(t, name)
    /\ \E d \in LibLoadResults :
        /\ cause' = [cause EXCEPT ![t] = IF d = NullHandle THEN "load" ELSE "none"]
        /\ ret' = [ret EXCEPT ![t] = d]
        /\ IF d = NullHandle
             THEN UNCHANGED <<libDocs, docKind, docBuf, issued>>
             ELSE /\ libDocs' = libDocs \cup {d}
                  /\ docKind' = [docKind EXCEPT ![d] = kind]
                  /\ docBuf' = [docBuf EXCEPT ![d] = NoBuffer]
                  /\ issued' = issued \cup {d}
    /\ \E hasPw \in BOOLEAN :
        cPassword' = [cPassword EXCEPT
            ![t] = IF kind = "path" THEN ReleasePassword(AcquirePassword(hasPw))
                   ELSE "null"]
    /\ elements' = [elements EXCEPT ![t] = "none"]
    /\ pc' = [pc EXCEPT ![t] = "returned"]
    /\ UNCHANGED <<libVars, faultVars, objVars, otherVars, g_docBuffers, heap, doubleFree, doc,
                   buffer, fileSize, remaining, ptr>>

\* FPDF_LoadDocument(cPath, cPassword); `if (!doc) return 0; return doc;`
OpenDocumentPath(t) == LibraryOwnedDocument(t, "nativeOpenDocumentPath", "path")

\* `return (jlong) FPDF_CreateNewDocument();`
NewDocument(t) == LibraryOwnedDocument(t, "nativeNewDocument", "new")

\* ------------------------------------------------- nativeCloseDocument
\* Faulty variant: the document is not closed in the library before the buffer goes
LibCloseDocument_Skipped(t, d) ==
    UNCHANGED <<libDocs, docKind, docBuf, libArg, aborted>>
\* FPDF_CloseDocument(doc) in the library.  On the value of a document that is
\* not open the library works on freed memory: it may go on, or the process
\* may be aborted.
LibCloseDocument(t, d) ==
    IF d \in libDocs
      THEN /\ libDocs' = libDocs \ {d}
           /\ docKind' = [docKind EXCEPT ![d] = "none"]
           /\ docBuf' = [docBuf EXCEPT ![d] = NoBuffer]
           /\ libArg' = [libArg EXCEPT ![t] = "live"]
           /\ UNCHANGED aborted
      ELSE /\ libArg' = [libArg EXCEPT ![t] = "stale"]
           /\ \E crash \in BOOLEAN : aborted' = crash
           /\ UNCHANGED <<libDocs, docKind, docBuf>>

\* What the handle value passed to nativeCloseDocument names at the call.
HandleNames(docPtr) ==
    IF docPtr = NullHandle THEN "null"
    ELSE IF docPtr \in libDocs THEN docKind[docPtr] ELSE "stale"

\* `if (doc) { FPDF_CloseDocument(doc); ...`
CloseDocument_Call(t) ==
    /\ CanCall(t)
    /\ op' = [op EXCEPT ![t] = "nativeCloseDocument"]
    /\ gAtCall' = [gAtCall EXCEPT ![t] = g_docBuffers]
    /\ loaderCalled' = [loaderCalled EXCEPT ![t] = FALSE]
    /\ \E docPtr \in {NullHandle} \cup issued :
        /\ doc' = [doc EXCEPT ![t] = docPtr]
        /\ closing' = [closing EXCEPT ![t] = HandleNames(docPtr)]
        /\ IF docPtr # NullHandle
             THEN /\ LibCloseDocument(t, docPtr)
                  /\ pc' = [pc EXCEPT ![t] = "cd_free"]
             ELSE /\ pc' = [pc EXCEPT ![t] = "returned"]
                  /\ UNCHANGED <<libDocs, docKind, docBuf, libArg, aborted>>
    /\ cause' = [cause EXCEPT ![t] = "none"]
    /\ ret' = [ret EXCEPT ![t] = NullHandle]
    /\ cPassword' = [cPassword EXCEPT ![t] = "null"]
    /\ elements' = [elements EXCEPT ![t] = "none"]
    /\ UNCHANGED <<libVars, objVars, otherVars, g_docBuffers, heap, doubleFree, issued,
                   buffer, fileSize, remaining, ptr>>

\* `auto it = g_docBuffers.find(doc); if (it != end) { delete[] it->second;
\* g_docBuffers.erase(it); }`
CloseDocument_Free(t) ==
    /\ pc[t] = "cd_free" /\ ~aborted
    /\ IF MapHas(g_docBuffers, doc[t])
         THEN /\ Delete(g_docBuffers[doc[t]])
              /\ g_docBuffers' = MapErase(g_docBuffers, doc[t])
         ELSE UNCHANGED <<heap, doubleFree, g_docBuffers>>
    /\ FinishCall(t, NullHandle)
    /\ UNCHANGED <<libVars, faultVars, objVars, otherVars, libDocs, docKind, docBuf, issued,
                   cPassword, elements, loaderCalled, cause, closing, gAtCall, op>>

\* ------------------------------------------------ derived handles
\* A native operation on a handle: the kind of handle it passes to the
\* library, whether the code tests that handle for null before the call
\* (checks), and whether the library call creates a handle (of kind makes),
\* uses the handle or closes it.
nativeLoadPage ==
    [name |-> "nativeLoadPage", kind |-> "doc", checks |-> TRUE,
     role |-> "create", makes |-> "page"]
nativeClosePage ==
    [name |-> "nativeClosePage", kind |-> "page", checks |-> TRUE,
     role |-> "close", makes |-> "none"]
nativeGetPageWidth ==
    [name |-> "nativeGetPageWidth", kind |-> "page", checks |-> TRUE,
     role |-> "use", makes |-> "none"]
nativeLoadTextPage ==
    [name |-> "nativeLoadTextPage", kind |-> "page", checks |-> TRUE,
     role |-> "create", makes |-> "textpage"]
nativeCloseTextPage ==
    [name |-> "nativeCloseTextPage", kind |-> "textpage", checks |-> TRUE,
     role |-> "close", makes |-> "none"]
nativeTextFindStart ==
    [name |-> "nativeTextFindStart", kind |-> "textpage", checks |-> TRUE,
     role |-> "create", makes |-> "search"]
nativeTextFindNext ==
    [name |-> "nativeTextFindNext", kind |-> "search", checks |-> TRUE,
     role |-> "use", makes |-> "none"]
nativeTextFindPrev ==
    [name |-> "nativeTextFindPrev", kind |-> "search", checks |-> TRUE,
     role |-> "use", makes |-> "none"]
nativeTextGetSchResultIndex ==
    [name |-> "nativeTextGetSchResultIndex", kind |-> "search", checks |-> TRUE,
     role |-> "use", makes |-> "none"]
nativeTextGetSchCount ==
    [name |-> "nativeTextGetSchCount", kind |-> "search", checks |-> TRUE,
     role |-> "use", makes |-> "none"]
nativeTextFindClose ==
    [name |-> "nativeTextFindClose", kind |-> "search", checks |-> TRUE,
     role |-> "close", makes |-> "none"]
nativeGetAnnot ==
    [name |-> "nativeGetAnnot", kind |-> "page", checks |-> TRUE,
     role |-> "create", makes |-> "annot"]
nativeCloseAnnot ==
    [name |-> "nativeCloseAnnot", kind |-> "annot", checks |-> TRUE,
     role |-> "close", makes |-> "none"]
nativeGetFormFieldCount ==
    [name |-> "nativeGetFormFieldCount", kind |-> "page", checks |-> TRUE,
     role |-> "use", makes |-> "none"]
nativeCreateNewPath ==
    [name |-> "nativeCreateNewPath", kind |-> "none", checks |-> FALSE,
     role |-> "create", makes |-> "pageobj"]
nativePathMoveTo ==
    [name |-> "nativePathMoveTo", kind |-> "pageobj", checks |-> FALSE,
     role |-> "use", makes |-> "none"]
nativePathLineTo ==
    [name |-> "nativePathLineTo", kind |-> "pageobj", checks |-> FALSE,
     role |-> "use", makes |-> "none"]
nativePathBezierTo ==
    [name |-> "nativePathBezierTo", kind |-> "pageobj", checks |-> FALSE,
     role |-> "use", makes |-> "none"]
nativePathClose ==
    [name |-> "nativePathClose", kind |-> "pageobj", checks |-> FALSE,
     role |-> "use", makes |-> "none"]
nativePathSetDrawMode ==
    [name |-> "nativePathSetDrawMode", kind |-> "pageobj", checks |-> FALSE,
     role |-> "use", makes |-> "none"]
nativePathSetStrokeWidth ==
    [name |-> "nativePathSetStrokeWidth", kind |-> "pageobj", checks |-> FALSE,
     role |-> "use", makes |-> "none"]
nativeSetObjectFillColor ==
    [name |-> "nativeSetObjectFillColor", kind |-> "pageobj", checks |-> TRUE,
     role |-> "use", makes |-> "none"]

HandleOps ==
    {nativeLoadPage, nativeClosePage, nativeGetPageWidth,
     nativeLoadTextPage, nativeCloseTextPage, nativeTextFindStart,
     nativeTextFindNext, nativeTextFindPrev, nativeTextGetSchResultIndex,
     nativeTextGetSchCount, nativeTextFindClose, nativeGetAnnot,
     nativeCloseAnnot, nativeGetFormFieldCount, nativeCreateNewPath,
     nativePathMoveTo, nativePathLineTo, nativePathBezierTo,
     nativePathClose, nativePathSetDrawMode, nativePathSetStrokeWidth,
     nativeSetObjectFillColor}

\* What a handle value names when it is passed in.
ArgStateOf(kind, h) ==
    IF kind = "none" THEN "none"
    ELSE IF h = NullHandle THEN "null"
    ELSE IF kind = "doc" THEN (IF h \in libDocs THEN "live" ELSE "stale")
    ELSE IF objs[kind][h].st = "live" THEN "live" ELSE "stale"

\* The handle values a caller can pass: null, or a value it was given.
ArgsOf(kind) ==
    IF kind = "none" THEN {NullHandle}
    ELSE IF kind = "doc" THEN {NullHandle} \cup issued
    ELSE {NullHandle} \cup {h \in ObjHandles : objs[kind][h].st # "unused"}

\* The document a new handle derives from.
OwnerOf(kind, h) ==
    IF kind = "none" THEN NullHandle
    ELSE IF kind = "doc" THEN h
    ELSE objs[kind][h].doc

\* The library call of operation o on handle value h.  The library tests for
\* null itself and then does nothing; on the value of a closed handle it works
\* on freed memory: it may go on, or the process may be aborted.
LibHandleCall(t, o, h) ==
    LET st == ArgStateOf(o.kind, h) IN
    /\ libArg' = [libArg EXCEPT ![t] = IF st = "none" THEN "nohandle" ELSE st]
    /\ IF st = "null"
         THEN /\ ret' = [ret EXCEPT ![t] = 0]
              /\ UNCHANGED <<objs, aborted>>
       ELSE IF st = "stale"
         THEN /\ ret' = [ret EXCEPT ![t] = 0]
              /\ \E crash \in BOOLEAN : aborted' = crash
              /\ UNCHANGED objs
       ELSE IF o.role = "close"
         THEN /\ objs' = [objs EXCEPT ![o.kind][h] = Closed]
              /\ ret' = [ret EXCEPT ![t] = 0]
              /\ UNCHANGED aborted
       ELSE IF o.role = "create"
         THEN /\ \E n \in {NullHandle} \cup
                          {x \in ObjHandles : objs[o.makes][x].st # "live"} :
                    /\ ret' = [ret EXCEPT ![t] = n]
                    /\ objs' = IF n = NullHandle THEN objs
                               ELSE [objs EXCEPT ![o.makes][n] =
                                        Live(OwnerOf(o.kind, h))]
              /\ UNCHANGED aborted
       ELSE /\ ret' = [ret EXCEPT ![t] = 1]
            /\ UNCHANGED <<objs, aborted>>

\* `if (!handle) return <sentinel>;` where the code has it, then the call.
NativeHandleCall(t, o, h) ==
    /\ CanCall(t)
    /\ op' = [op EXCEPT ![t] = o.name]
    /\ argState' = [argState EXCEPT ![t] = ArgStateOf(o.kind, h)]
    /\ IF o.checks /\ h = NullHandle
         THEN /\ libArg' = [libArg EXCEPT ![t] = "none"]
              /\ ret' = [ret EXCEPT ![t] = 0]
              /\ UNCHANGED <<objs, aborted>>
         ELSE LibHandleCall(t, o, h)
    /\ pc' = [pc EXCEPT ![t] = "returned"]
    /\ UNCHANGED <<libVars, docVars, otherVars>>

HandleCreate(t) ==
    \E o \in {x \in HandleOps : x.role = "create"}, h \in Handles \cup ObjHandles \cup {NullHandle} :
        h \in ArgsOf(o.kind) /\ NativeHandleCall(t, o, h)

HandleUse(t) ==
    \E o \in {x \in HandleOps : x.role = "use"}, h \in ObjHandles \cup {NullHandle} :
        h \in ArgsOf(o.kind) /\ NativeHandleCall(t, o, h)

HandleClose(t) ==
    \E o \in {x \in HandleOps : x.role = "close"}, h \in ObjHandles \cup {NullHandle} :
        h \in ArgsOf(o.kind) /\ NativeHandleCall(t, o, h)

\* ---------------------------------------------------------- return
\* The native frame is left: the caller has the result, and what the call
\* kept about itself is gone.
Return(t) ==
    /\ pc[t] = "returned" /\ ~aborted
    /\ pc' = [pc EXCEPT ![t] = "idle"]
    /\ op' = [op EXCEPT ![t] = "none"]
    /\ ret' = [ret EXCEPT ![t] = 0]
    /\ cause' = [cause EXCEPT ![t] = "none"]
    /\ closing' = [closing EXCEPT ![t] = "none"]
    /\ gAtCall' = [gAtCall EXCEPT ![t] = << >>]
    /\ cPassword' = [cPassword EXCEPT ![t] = "null"]
    /\ elements' = [elements EXCEPT ![t] = "none"]
    /\ loaderCalled' = [loaderCalled EXCEPT ![t] = FALSE]
    /\ didLib' = [didLib EXCEPT ![t] = FALSE]
    /\ argState' = [argState EXCEPT ![t] = "none"]
    /\ libArg' = [libArg EXCEPT ![t] = "none"]
    /\ UNCHANGED <<libraryReferenceCount, libInitialized, libFaults, nInit,
                   nDestroy, underflow, tmp, aborted, objs, g_docBuffers, libDocs,
                   docKind, docBuf, heap, doubleFree, issued, doc, buffer,
                   fileSize, remaining, ptr>>
    /\ rop' = NoRenderOp
    /\ info' = NoInfo
    /\ region' = NoRegion
    /\ callerFlags' = {}
    /\ renderAnnot' = FALSE
    /\ probe' = "none"
    /\ rflags' = {}
    /\ status' = "none"
    /\ nLock' = 0
    /\ nUnlock' = 0
    /\ rasterCalled' = FALSE
    /\ spanAtCall' = "none"
    /\ white' = {}
    /\ written' = {}
    /\ UNCHANGED <<pixelsLocked, fpdfBitmap, spanCtx, rasterBad>>
    /\ getter' = NoGetter
    /\ libText' = Absent
    /\ querySize' = 0
    /\ allocated' = 0
    /\ sbuf' = << >>
    /\ writtenCount' = 0
    /\ nQuery' = 0
    /\ nFill' = 0
    /\ result' = NullString
    /\ wop' = "none"
    /\ jstr' = << >>
    /\ wbuf' = << >>
    /\ nNewW' = 0
    /\ nDelW' = 0
    /\ libGot' = NothingPassed
    /\ fop' = "none"
    /\ formInfo' = 0
    /\ formHandle' = 0
    /\ UNCHANGED <<forms, nForms>>
    /\ file' = "none"
    /\ nClose' = 0
    /\ blocks' = << >>
    /\ lastWrite' = NoWrite
    /\ shortWrite' = FALSE
    /\ saveCalled' = FALSE
    /\ success' = FALSE
    /\ aop' = "none"
    /\ arr' = << >>
    /\ arrAtCall' = << >>
    /\ locals' = << >>
    /\ libCalled' = FALSE
    /\ libOk' = FALSE
    /\ libOut' = << >>

\* ------------------------------- nativeInitLibrary / nativeDestroyLibrary
\* Faulty variant: the test is off by one
CountIsZero_OffByOne(n) == n <= 1
\* `if (libraryReferenceCount == 0)`
CountIsZero(n) == n = 0

\* FPDF_InitLibraryWithConfig(&config): initializing an initialized library
\* is recorded.
LibInit ==
    /\ libFaults' = IF libInitialized THEN libFaults \cup {"doubleInit"}
                    ELSE libFaults
    /\ libInitialized' = TRUE

\* FPDF_DestroyLibrary(): recorded when the library is not initialized, and
\* when it is torn down while the counter says it is in use.
LibDestroy ==
    /\ libFaults' = libFaults
          \cup (IF libInitialized THEN {} ELSE {"destroyUninitialized"})
          \cup (IF libraryReferenceCount > 0 THEN {"destroyInUse"} ELSE {})
    /\ libInitialized' = FALSE

\* Entry of nativeInitLibrary: the test of the counter.
InitLibrary_Call(t) ==
    /\ CanCall(t)
    /\ nInit + nDestroy < MaxLibCalls
    /\ op' = [op EXCEPT ![t] = "nativeInitLibrary"]
    /\ nInit' = nInit + 1
    /\ didLib' = [didLib EXCEPT ![t] = FALSE]
    /\ pc' = [pc EXCEPT ![t] =
          IF CountIsZero(libraryReferenceCount) THEN "il_init" ELSE "il_load"]
    /\ UNCHANGED <<libraryReferenceCount, libInitialized, libFaults, nDestroy,
                   underflow, tmp, docVars, faultVars, objVars, otherVars, ret>>

InitLibrary_Init(t) ==
    /\ pc[t] = "il_init" /\ ~aborted
    /\ LibInit
    /\ didLib' = [didLib EXCEPT ![t] = TRUE]
    /\ pc' = [pc EXCEPT ![t] = "il_load"]
    /\ UNCHANGED <<libraryReferenceCount, nInit, nDestroy, underflow, tmp,
                   docVars, faultVars, objVars, otherVars, op, ret>>

\* `libraryReferenceCount++` is a load and a store of a plain int.
InitLibrary_Load(t) ==
    /\ pc[t] = "il_load" /\ ~aborted
    /\ tmp' = [tmp EXCEPT ![t] = libraryReferenceCount]
    /\ pc' = [pc EXCEPT ![t] = "il_store"]
    /\ UNCHANGED <<libraryReferenceCount, libInitialized, libFaults, nInit,
                   nDestroy, underflow, didLib, docVars, faultVars, objVars, otherVars, op, ret>>

InitLibrary_Store(t) ==
    /\ pc[t] = "il_store" /\ ~aborted
    /\ libraryReferenceCount' = tmp[t] + 1
    /\ tmp' = [tmp EXCEPT ![t] = 0]
    /\ pc' = [pc EXCEPT ![t] = "returned"]
    /\ UNCHANGED <<libInitialized, libFaults, nInit, nDestroy, underflow, didLib,
                   docVars, faultVars, objVars, otherVars, op, ret>>

\* Entry of nativeDestroyLibrary: the load of `libraryReferenceCount--`.
DestroyLibrary_Call(t) ==
    /\ CanCall(t)
    /\ nInit + nDestroy < MaxLibCalls
    /\ op' = [op EXCEPT ![t] = "nativeDestroyLibrary"]
    /\ nDestroy' = nDestroy + 1
    /\ underflow' = (underflow \/ nDestroy + 1 > nInit)
    /\ didLib' = [didLib EXCEPT ![t] = FALSE]
    /\ tmp' = [tmp EXCEPT ![t] = libraryReferenceCount]
    /\ pc' = [pc EXCEPT ![t] = "dl_store"]
    /\ UNCHANGED <<libraryReferenceCount, libInitialized, libFaults, nInit,
                   docVars, faultVars, objVars, otherVars, ret>>

DestroyLibrary_Store(t) ==
    /\ pc[t] = "dl_store" /\ ~aborted
    /\ libraryReferenceCount' = tmp[t] - 1
    /\ tmp' = [tmp EXCEPT ![t] = 0]
    /\ pc' = [pc EXCEPT ![t] = "dl_test"]
    /\ UNCHANGED <<libInitialized, libFaults, nInit, nDestroy, underflow, didLib,
                   docVars, faultVars, objVars, otherVars, op, ret>>

\* `if (libraryReferenceCount == 0)` after the decrement
DestroyLibrary_Test(t) ==
    /\ pc[t] = "dl_test" /\ ~aborted
    /\ pc' = [pc EXCEPT ![t] =
          IF CountIsZero(libraryReferenceCount) THEN "dl_destroy" ELSE "returned"]
    /\ UNCHANGED <<libVars, docVars, faultVars, objVars, otherVars, op, ret>>

DestroyLibrary_Destroy(t) ==
    /\ pc[t] = "dl_destroy" /\ ~aborted
    /\ LibDestroy
    /\ didLib' = [didLib EXCEPT ![t] = TRUE]
    /\ pc' = [pc EXCEPT ![t] = "returned"]
    /\ UNCHANGED <<libraryReferenceCount, nInit, nDestroy, underflow, tmp,
                   docVars, faultVars, objVars, otherVars, op, ret>>

LibStep(t) ==
    \/ InitLibrary_Call(t)
    \/ InitLibrary_Init(t)
    \/ InitLibrary_Load(t)
    \/ InitLibrary_Store(t)
    \/ DestroyLibrary_Call(t)
    \/ DestroyLibrary_Store(t)
    \/ DestroyLibrary_Test(t)
    \/ DestroyLibrary_Destroy(t)
    \/ Return(t)

\* One caller thread: any sequence of init and destroy calls.
NextLib == \E t \in MainThread : LibStep(t)
SpecLib == Init /\ [][NextLib]_vars

\* Init and destroy calls issued from two threads.
NextLibMT == \E t \in Threads : LibStep(t)
SpecLibMT == Init /\ [][NextLibMT]_vars

\* ------------------------------------------- document specifications
DocStep(t) ==
    \/ OpenDocument_Call(t)
    \/ OpenDocument_Read(t)
    \/ OpenDocument_Load(t)
    \/ OpenDocument_Register(t)
    \/ OpenMemDocument_Call(t)
    \/ OpenMemDocument_Load(t)
    \/ OpenMemDocument_Register(t)
    \/ OpenDocumentPath(t)
    \/ NewDocument(t)
    \/ CloseDocument_Call(t)
    \/ CloseDocument_Free(t)
    \/ Return(t)

\* One caller thread: any sequence of document calls.
Next == \E t \in MainThread : DocStep(t)
Spec == Init /\ [][Next]_vars

\* Document calls issued from two threads, interleaved at the points where a
\* call reads or writes g_docBuffers or calls the library: the first thread
\* opens documents from a descriptor and closes documents, the second opens
\* documents from bytes.
NextMT ==
    \/ \E t \in Threads : Return(t)
    \/ \E t \in MainThread :
          \/ OpenDocument_Call(t)
          \/ OpenDocument_Read(t)
          \/ OpenDocument_Load(t)
          \/ OpenDocument_Register(t)
          \/ CloseDocument_Call(t)
          \/ CloseDocument_Free(t)
    \/ \E t \in Threads \ MainThread :
          \/ OpenMemDocument_Call(t)
          \/ OpenMemDocument_Load(t)
          \/ OpenMemDocument_Register(t)
SpecMT == Init /\ [][NextMT]_vars

\* ---------------------------------------------- handle specification
\* One caller thread: documents created and closed, handles derived from
\* them, used and closed, with any handle value the caller was ever given.
NextHandles ==
    \E t \in MainThread :
        \/ NewDocument(t)
        \/ CloseDocument_Call(t)
        \/ CloseDocument_Free(t)
        \/ HandleCreate(t)
        \/ HandleUse(t)
        \/ HandleClose(t)
        \/ Return(t)
SpecHandles == Init /\ [][NextHandles]_vars

\* ---------------------------------------------------------- rendering
\* info.format of a surface
Formats ==
    {"ANDROID_BITMAP_FORMAT_RGBA_8888", "ANDROID_BITMAP_FORMAT_RGB_565",
     "ANDROID_BITMAP_FORMAT_A_8"}
\* the render flags the model follows
Flags == {"FPDF_ANNOT", "FPDF_REVERSE_BYTE_ORDER"}
\* the pause predicate a caller wants a progressive render to consult
Probes == {"none", "alwaysTrue", "alwaysFalse"}

\* Faulty variant: a 2-bytes-per-pixel surface is let through
FormatAccepted_Narrow(f) ==
    f \in {"ANDROID_BITMAP_FORMAT_RGBA_8888", "ANDROID_BITMAP_FORMAT_RGB_565"}
\* `if (info.format != ANDROID_BITMAP_FORMAT_RGBA_8888) return ...;`
FormatAccepted(f) == f = "ANDROID_BITMAP_FORMAT_RGBA_8888"

\* Faulty variant: nothing is filled
FillRect_Nothing(width) == {}
\* FPDFBitmap_FillRect(fpdfBitmap, 0, 0, info.width, info.height, 0xFFFFFFFF):
\* the pixels made opaque white
FillRect(width) == 1..width

\* The pixels of a surface of the given width that the rasterizer draws for
\* the region startX, drawWidth (what lies outside the bitmap is clipped).
RegionPixels(width, r) ==
    {p \in 1..width : r.startX < p /\ p <= r.startX + r.drawWidth}

\* The flags handed to the rasterizer: nativeRenderPageBitmap builds them
\* (`int flags = FPDF_REVERSE_BYTE_ORDER; if (renderAnnot) flags |= FPDF_ANNOT`),
\* the other two pass on the caller's.
RasterFlags(o, cf, ra) ==
    IF o.name = "nativeRenderPageBitmap"
      THEN {"FPDF_REVERSE_BYTE_ORDER"} \cup (IF ra THEN {"FPDF_ANNOT"} ELSE {})
      ELSE cf

\* The IFSDK_PAUSE handed to the library: always `nullptr`.
PauseArg(pr) == "none"

\* The status of a progressive step of the library: it stops at a pause point
\* only when the pause interface it was given says so.
StepResults(pause) ==
    IF pause = "alwaysTrue"
      THEN {"FPDF_RENDER_TOBECONTINUED", "FPDF_RENDER_FAILED"}
      ELSE {"FPDF_RENDER_DONE", "FPDF_RENDER_FAILED"}

\* The render context of the page after a progressive step with status st.
CtxAfter(ctx, st) ==
    IF st = "FPDF_RENDER_FAILED" THEN ctx
    ELSE IF st = "FPDF_RENDER_TOBECONTINUED" THEN "paused" ELSE "done"

\* What a call that rejects its arguments gives back.
Rejected(o) == IF o.progressive THEN "FPDF_RENDER_FAILED" ELSE "void"

\* Faulty variant: the pixels stay locked
UnlockPixels_Skipped(t) == UNCHANGED <<pixelsLocked, nUnlock>>
\* AndroidBitmap_unlockPixels(env, bitmap)
UnlockPixels(t) ==
    /\ pixelsLocked' = FALSE
    /\ nUnlock' = nUnlock + 1

\* The rasterizer of the library draws into the bitmap it was given; drawing
\* into pixels that are not locked or through a destroyed bitmap is recorded.
LibRasterize ==
    /\ rasterCalled' = TRUE
    /\ rasterBad' = (rasterBad \/ ~pixelsLocked \/ fpdfBitmap # "alive")

\* Entry of a surface operation: the null tests, AndroidBitmap_getInfo, the
\* size test where the code has one, the format test.
Render_Call(t) ==
    /\ CanCall(t)
    /\ \E o \in SurfaceOps, pagePtr \in {0, 1}, formHandlePtr \in {0, 1},
          hasBitmap \in BOOLEAN, infoOk \in BOOLEAN, w \in 0..MaxWidth,
          f \in Formats, x \in 0..(MaxWidth - 1), dw \in 1..MaxWidth,
          cf \in SUBSET Flags, ra \in BOOLEAN, pr \in Probes :
        LET argNull == pagePtr = 0 \/ ~hasBitmap
                         \/ (o.needsForm /\ formHandlePtr = 0)
            reject == argNull \/ ~infoOk \/ (o.checksSize /\ w = 0)
                         \/ ~FormatAccepted(f)
        IN
        /\ o.name = "nativeRenderPageBitmap" => cf = {}
        /\ o.name # "nativeRenderPageBitmap" => ~ra
        /\ ~o.progressive => pr = "none"
        /\ rop' = o
        /\ op' = [op EXCEPT ![t] = o.name]
        /\ info' = IF hasBitmap THEN [width |-> w, format |-> f] ELSE NoInfo
        /\ region' = [startX |-> x, drawWidth |-> dw]
        /\ callerFlags' = cf
        /\ renderAnnot' = ra
        /\ probe' = pr
        /\ status' = IF reject THEN Rejected(o) ELSE "none"
        /\ pc' = [pc EXCEPT ![t] = IF reject THEN "returned" ELSE "r_lock"]
    /\ spanAtCall' = spanCtx
    /\ white' = {}
    /\ written' = {}
    /\ rflags' = {}
    /\ nLock' = 0
    /\ nUnlock' = 0
    /\ rasterCalled' = FALSE
    /\ UNCHANGED <<pixelsLocked, fpdfBitmap, spanCtx, rasterBad>>
    /\ UNCHANGED <<libVars, docVars, faultVars, objVars, stringVars, lateVars, ret>>

\* AndroidBitmap_lockPixels(env, bitmap, &pixels); a failure ends the call.
Render_Lock(t) ==
    /\ pc[t] = "r_lock" /\ ~aborted
    /\ \E locked \in BOOLEAN :
        IF locked
          THEN /\ pixelsLocked' = TRUE
               /\ nLock' = nLock + 1
               /\ pc' = [pc EXCEPT ![t] = "r_create"]
               /\ UNCHANGED status
          ELSE /\ status' = Rejected(rop)
               /\ pc' = [pc EXCEPT ![t] = "returned"]
               /\ UNCHANGED <<pixelsLocked, nLock>>
    /\ UNCHANGED <<white, written, fpdfBitmap, spanCtx, rop, info, region,
                   callerFlags, renderAnnot, probe, rflags, nUnlock,
                   rasterCalled, rasterBad, spanAtCall>>
    /\ UNCHANGED <<libVars, docVars, faultVars, objVars, stringVars, lateVars, op, ret>>

\* FPDFBitmap_CreateEx(info.width, info.height, FPDFBitmap_BGRA, pixels,
\* info.stride): null for a bitmap of size 0, and whenever the library cannot
\* make one; then the pixels are unlocked and the call ends.
Render_Create(t) ==
    /\ pc[t] = "r_create" /\ ~aborted
    /\ \E made \in (IF info.width = 0 THEN {FALSE} ELSE BOOLEAN) :
        IF made
          THEN /\ fpdfBitmap' = "alive"
               /\ pc' = [pc EXCEPT ![t] = IF rop.fills THEN "r_fill"
                                          ELSE "r_raster"]
               /\ UNCHANGED status
          ELSE /\ fpdfBitmap' = "none"
               /\ status' = Rejected(rop)
               /\ pc' = [pc EXCEPT ![t] = "r_unlock"]
    /\ UNCHANGED <<pixelsLocked, white, written, spanCtx, rop, info, region,
                   callerFlags, renderAnnot, probe, rflags, nLock, nUnlock,
                   rasterCalled, rasterBad, spanAtCall>>
    /\ UNCHANGED <<libVars, docVars, faultVars, objVars, stringVars, lateVars, op, ret>>

\* FPDFBitmap_FillRect(...) over the whole bitmap
Render_Fill(t) ==
    /\ pc[t] = "r_fill" /\ ~aborted
    /\ white' = white \cup FillRect(info.width)
    /\ pc' = [pc EXCEPT ![t] = "r_raster"]
    /\ UNCHANGED <<pixelsLocked, written, fpdfBitmap, spanCtx, rop, info,
                   region, callerFlags, renderAnnot, probe, rflags, status,
                   nLock, nUnlock, rasterCalled, rasterBad, spanAtCall>>
    /\ UNCHANGED <<libVars, docVars, faultVars, objVars, stringVars, lateVars, op, ret>>

\* FPDF_RenderPageBitmap / FPDF_FFLDraw / FPDF_RenderPageBitmap_Start
Render_Raster(t) ==
    /\ pc[t] = "r_raster" /\ ~aborted
    /\ LibRasterize
    /\ rflags' = RasterFlags(rop, callerFlags, renderAnnot)
    /\ written' = written \cup RegionPixels(info.width, region)
    /\ IF rop.progressive
         THEN \E st \in StepResults(PauseArg(probe)) :
                /\ status' = st
                /\ spanCtx' = CtxAfter(spanCtx, st)
         ELSE /\ status' = "void"
              /\ UNCHANGED spanCtx
    /\ pc' = [pc EXCEPT ![t] = "r_destroy"]
    /\ UNCHANGED <<pixelsLocked, white, fpdfBitmap, rop, info, region,
                   callerFlags, renderAnnot, probe, nLock, nUnlock, spanAtCall>>
    /\ UNCHANGED <<libVars, docVars, faultVars, objVars, stringVars, lateVars, op, ret>>

\* FPDFBitmap_Destroy(fpdfBitmap)
Render_Destroy(t) ==
    /\ pc[t] = "r_destroy" /\ ~aborted
    /\ fpdfBitmap' = "destroyed"
    /\ pc' = [pc EXCEPT ![t] = "r_unlock"]
    /\ UNCHANGED <<pixelsLocked, white, written, spanCtx, rop, info, region,
                   callerFlags, renderAnnot, probe, rflags, status, nLock,
                   nUnlock, rasterCalled, rasterBad, spanAtCall>>
    /\ UNCHANGED <<libVars, docVars, faultVars, objVars, stringVars, lateVars, op, ret>>

\* AndroidBitmap_unlockPixels(env, bitmap); return
Render_Unlock(t) ==
    /\ pc[t] = "r_unlock" /\ ~aborted
    /\ UnlockPixels(t)
    /\ pc' = [pc EXCEPT ![t] = "returned"]
    /\ UNCHANGED <<white, written, fpdfBitmap, spanCtx, rop, info, region,
                   callerFlags, renderAnnot, probe, rflags, status, nLock,
                   rasterCalled, rasterBad, spanAtCall>>
    /\ UNCHANGED <<libVars, docVars, faultVars, objVars, stringVars, lateVars, op, ret>>

\* nativeRenderPageContinue: `if (!page) return FPDF_RENDER_FAILED;
\* return FPDF_RenderPage_Continue(page, nullptr);`.  The library goes on
\* drawing into the bitmap of the start call when the render is paused, has
\* nothing left to draw when it is done, and fails without a context.
RenderPageContinue(t) ==
    /\ CanCall(t)
    /\ rop' = nativeRenderPageContinue
    /\ op' = [op EXCEPT ![t] = "nativeRenderPageContinue"]
    /\ spanAtCall' = spanCtx
    /\ \E pagePtr \in {0, 1}, pr \in Probes :
        /\ probe' = pr
        /\ IF pagePtr = 0 \/ spanCtx = "none"
             THEN /\ status' = "FPDF_RENDER_FAILED"
                  /\ rasterCalled' = FALSE
                  /\ UNCHANGED <<spanCtx, rasterBad>>
           ELSE IF spanCtx = "done"
             THEN /\ status' = "FPDF_RENDER_DONE"
                  /\ rasterCalled' = FALSE
                  /\ UNCHANGED <<spanCtx, rasterBad>>
           ELSE /\ LibRasterize
                /\ \E st \in StepResults(PauseArg(pr)) :
                      /\ status' = st
                      /\ spanCtx' = CtxAfter(spanCtx, st)
    /\ pc' = [pc EXCEPT ![t] = "returned"]
    /\ nLock' = 0
    /\ nUnlock' = 0
    /\ white' = {}
    /\ written' = {}
    /\ rflags' = {}
    /\ UNCHANGED <<pixelsLocked, fpdfBitmap, info, region, callerFlags,
                   renderAnnot>>
    /\ UNCHANGED <<libVars, docVars, faultVars, objVars, stringVars, lateVars, ret>>

\* nativeRenderPageClose: `if (page) FPDF_RenderPage_Close(page);`: the
\* library drops the render context of the page.
RenderPageClose(t) ==
    /\ CanCall(t)
    /\ rop' = nativeRenderPageClose
    /\ op' = [op EXCEPT ![t] = "nativeRenderPageClose"]
    /\ spanAtCall' = spanCtx
    /\ \E pagePtr \in {0, 1} :
        spanCtx' = IF pagePtr = 0 THEN spanCtx ELSE "none"
    /\ status' = "void"
    /\ pc' = [pc EXCEPT ![t] = "returned"]
    /\ nLock' = 0
    /\ nUnlock' = 0
    /\ white' = {}
    /\ written' = {}
    /\ rflags' = {}
    /\ rasterCalled' = FALSE
    /\ UNCHANGED <<pixelsLocked, fpdfBitmap, info, region, callerFlags,
                   renderAnnot, probe, rasterBad>>
    /\ UNCHANGED <<libVars, docVars, faultVars, objVars, stringVars, lateVars, ret>>

\* One caller thread: any sequence of render calls on one page and surface.
NextRender ==
    \E t \in MainThread :
        \/ Render_Call(t)
        \/ Render_Lock(t)
        \/ Render_Create(t)
        \/ Render_Fill(t)
        \/ Render_Raster(t)
        \/ Render_Destroy(t)
        \/ Render_Unlock(t)
        \/ RenderPageContinue(t)
        \/ RenderPageClose(t)
        \/ Return(t)
SpecRender == Init /\ [][NextRender]_vars

\* ------------------------------------------------------ string getters
\* The characters of the library's texts: one in ASCII, one outside it.
Chars == {"a", "eacute"}
\* The texts a field can hold in the given encoding, up to MaxText characters.
TextsOf(enc) ==
    LET alphabet == IF enc = "ascii" THEN {"a"} ELSE Chars
    IN  UNION {[1..n -> alphabet] : n \in 0..MaxText}

\* UTF-16LE: two bytes per character, low byte first, and a 16-bit NUL.
RECURSIVE Encode16(_)
Encode16(s) ==
    IF s = << >> THEN <<"00", "00">>
    ELSE <<(IF Head(s) = "a" THEN "61" ELSE "E9"), "00">> \o Encode16(Tail(s))

\* UTF-8 (ASCII is its 7-bit part): one or two bytes per character, and a NUL.
RECURSIVE Encode8(_)
Encode8(s) ==
    IF s = << >> THEN <<"00">>
    ELSE (IF Head(s) = "a" THEN <<"61">> ELSE <<"C3", "A9">>)
            \o Encode8(Tail(s))

\* The bytes the library writes for a text, terminator included.
LibBytes(g, s) == IF g.enc = "utf16" THEN Encode16(s) ELSE Encode8(s)

\* What the library returns for the field, with or without a buffer: 0 when
\* the field is absent, else the bytes (or 16-bit units) of the text with its
\* terminator.
LibLength(g, f) ==
    IF ~f.present THEN 0
    ELSE IF g.count = "units" THEN Len(LibBytes(g, f.chars)) \div 2
    ELSE Len(LibBytes(g, f.chars))

\* The bytes a count of the library stands for.
BytesOf(g, n) == IF g.count = "units" THEN n * 2 ELSE n

\* `if (size == 0)` / `if (bufSize <= 2)` / `if (size <= 0)`
NothingToFetch(g, n) == n <= g.minSize

\* `new unsigned short[size]` / `new unsigned short[bufSize / 2]` /
\* `new char[size]`: the elements allocated
AllocLength(g, n) == IF g.allocHalf THEN n \div 2 ELSE n

\* The length passed to the fill call: size, or size * sizeof(unsigned short).
FillLength(g, n) == IF g.fillTwice THEN n * 2 ELSE n

\* The fill call of the library: the text is copied when the length it is
\* given suffices, else the buffer is left as it is.
LibFill(g, f, buflen, buf) ==
    IF f.present /\ buflen >= LibLength(g, f) THEN LibBytes(g, f.chars)
    ELSE buf

\* The character of a 16-bit unit.
Char16(lo, hi) ==
    IF hi = "00" /\ lo = "61" THEN "a"
    ELSE IF hi = "00" /\ lo = "E9" THEN "eacute"
    ELSE "other"

\* env->NewString((jchar*) buffer, n): the first n 16-bit units of the buffer.
NewString(buf, n) ==
    IF n < 0 \/ 2 * n > Len(buf) THEN NullString
    ELSE JavaString([i \in 1..n |-> Char16(buf[2 * i - 1], buf[2 * i])])

\* env->NewStringUTF(buffer): the bytes up to the first NUL, read as
\* (modified) UTF-8.
RECURSIVE DecodeUTF(_)
DecodeUTF(buf) ==
    IF buf = << >> \/ Head(buf) = "00" THEN << >>
    ELSE IF Head(buf) = "61" THEN <<"a">> \o DecodeUTF(Tail(buf))
    ELSE IF Head(buf) = "C3" /\ Len(buf) >= 2 /\ buf[2] = "A9"
      THEN <<"eacute">> \o DecodeUTF(Tail(Tail(buf)))
    ELSE <<"other">> \o DecodeUTF(Tail(buf))
NewStringUTF(buf) == JavaString(DecodeUTF(buf))

\* The result a getter builds from the filled buffer and the size.
BuildResult(g, buf, n) ==
    IF g.conv = "half" THEN NewString(buf, n \div 2 - 1)
    ELSE IF g.conv = "units" THEN NewString(buf, n - 1)
    ELSE NewStringUTF(buf)

\* What a getter returns without a fill call, by its kind.
EarlyResult(kind) == IF kind = "null" THEN NullString ELSE JavaString(<< >>)

\* Entry of a getter: the null test of the handle, the size query with a
\* null buffer of length 0, and the test of the size.
Getter_Call(t) ==
    /\ CanCall(t)
    /\ \E g \in StringGetters, handlePtr \in {0, 1} :
        \E f \in {Absent} \cup {Text(s) : s \in TextsOf(g.enc)} :
            /\ getter' = g
            /\ op' = [op EXCEPT ![t] = g.name]
            /\ IF handlePtr = 0
                 THEN /\ libText' = Absent
                      /\ querySize' = 0
                      /\ nQuery' = 0
                      /\ result' = EarlyResult(g.onNull)
                      /\ f = Absent
                      /\ pc' = [pc EXCEPT ![t] = "returned"]
                 ELSE /\ libText' = f
                      /\ querySize' = LibLength(g, f)
                      /\ nQuery' = 1
                      /\ IF NothingToFetch(g, LibLength(g, f))
                           THEN /\ result' = EarlyResult(g.none)
                                /\ pc' = [pc EXCEPT ![t] = "returned"]
                           ELSE /\ result' = NullString
                                /\ pc' = [pc EXCEPT ![t] = "g_fill"]
    /\ allocated' = 0
    /\ sbuf' = << >>
    /\ writtenCount' = 0
    /\ nFill' = 0
    /\ UNCHANGED <<libVars, docVars, faultVars, objVars, renderVars, lateVars, ret>>

\* The field as the fill call can find it: as the size query found it, or
\* shorter or absent, the object having been edited in between (the layer
\* holds no lock between its two calls of the library).
TextsAtFill(g, f0) ==
    {f0} \cup {f \in {Absent} \cup {Text(s) : s \in TextsOf(g.enc)} :
                    LibLength(g, f) < LibLength(g, f0)}

\* `new unsigned short[size]` / `new char[size]` initializes nothing: the n
\* bytes of the buffer the library did not write hold any values.
Uninitialized(n) == [1..n -> {"00", "61"}]

\* The buffer is allocated and the library is called again to fill it; what
\* the call returns is dropped.
Getter_Fill(t) ==
    /\ pc[t] = "g_fill" /\ ~aborted
    /\ allocated' = AllocLength(getter, querySize)
    /\ \E f \in TextsAtFill(getter, libText) :
        \E rest \in Uninitialized(BytesOf(getter, querySize)
                                    - BytesOf(getter, LibLength(getter, f))) :
            /\ sbuf' = LibFill(getter, f, FillLength(getter, querySize),
                               << >>) \o rest
            /\ writtenCount' = LibLength(getter, f)
    /\ nFill' = nFill + 1
    /\ pc' = [pc EXCEPT ![t] = "g_convert"]
    /\ UNCHANGED <<getter, libText, querySize, nQuery, result>>
    /\ UNCHANGED <<libVars, docVars, faultVars, objVars, renderVars, lateVars, op, ret>>

\* The Java string is made from the buffer, the buffer deleted, the string
\* returned.
Getter_Convert(t) ==
    /\ pc[t] = "g_convert" /\ ~aborted
    /\ result' = BuildResult(getter, sbuf, querySize)
    /\ pc' = [pc EXCEPT ![t] = "returned"]
    /\ UNCHANGED <<getter, libText, querySize, allocated, sbuf, writtenCount,
                   nQuery, nFill>>
    /\ UNCHANGED <<libVars, docVars, faultVars, objVars, renderVars, lateVars, op, ret>>

\* One caller thread: any sequence of getter calls.
NextStrings ==
    \E t \in MainThread :
        \/ Getter_Call(t)
        \/ Getter_Fill(t)
        \/ Getter_Convert(t)
        \/ Return(t)
SpecStrings == Init /\ [][NextStrings]_vars

\* ------------------------------------------- caller strings to the library
\* The 16-bit units of a caller's string: 'a' and e-acute.
CodeUnits == {97, 233}
\* The caller's strings, up to MaxText units.
CallerStrings == UNION {[1..n -> CodeUnits] : n \in 0..MaxText}

\* The operations that hand a caller string to the library as FPDF_WIDESTRING.
WideOps ==
    {"nativeTextFindStart", "nativeSetAnnotContents", "nativeSetAnnotAuthor",
     "nativeSetAnnotSubject", "nativeSetFormFieldValue",
     "nativeSetTextObjText", "nativeFindBookmark", "nativeAddAttachment"}

\* The operations that copy the string into a buffer of their own; the others
\* cast the pointer GetStringChars gave them.
BuildsBuffer(name) == name \notin {"nativeFindBookmark", "nativeAddAttachment"}

\* `new unsigned short[len + 1]`, `buffer[i] = (unsigned short) chars[i]` for
\* i < len, `buffer[len] = 0`
WideCopy(s) ==
    [i \in 1..(Len(s) + 1) |-> IF i <= Len(s) THEN s[i] % 65536 ELSE 0]

\* What follows the units of a string in the memory GetStringChars points
\* to: the interface promises no terminator.
AfterChars == {<<0>>, <<97, 0>>}

\* Entry: the null test of the handle, GetStringLength and GetStringChars,
\* and for the copying operations the allocation and the copy.
Wide_Call(t) ==
    /\ CanCall(t)
    /\ \E name \in WideOps, handlePtr \in {0, 1}, s \in CallerStrings :
        /\ wop' = name
        /\ op' = [op EXCEPT ![t] = name]
        /\ jstr' = s
        /\ IF handlePtr = 0
             THEN /\ wbuf' = << >>
                  /\ nNewW' = 0
                  /\ pc' = [pc EXCEPT ![t] = "returned"]
             ELSE /\ wbuf' = IF BuildsBuffer(name) THEN WideCopy(s) ELSE << >>
                  /\ nNewW' = IF BuildsBuffer(name) THEN 1 ELSE 0
                  /\ pc' = [pc EXCEPT ![t] = "w_lib"]
    /\ nDelW' = 0
    /\ libGot' = NothingPassed
    /\ UNCHANGED <<libVars, docVars, faultVars, objVars, renderVars,
                   stringVars, besidesWide, ret>>

\* The library call: FPDFText_FindStart, FPDFAnnot_SetStringValue,
\* FPDFText_SetText, FPDFBookmark_Find, FPDFDoc_AddAttachment.
Wide_Lib(t) ==
    /\ pc[t] = "w_lib" /\ ~aborted
    /\ IF BuildsBuffer(wop)
         THEN libGot' = [units |-> wbuf, built |-> TRUE, passed |-> TRUE]
         ELSE \E rest \in AfterChars :
                libGot' = [units |-> jstr \o rest, built |-> FALSE,
                           passed |-> TRUE]
    /\ \E r \in {0, 1} : ret' = [ret EXCEPT ![t] = r]
    /\ pc' = [pc EXCEPT ![t] = "w_free"]
    /\ UNCHANGED <<wop, jstr, wbuf, nNewW, nDelW>>
    /\ UNCHANGED <<libVars, docVars, faultVars, objVars, renderVars,
                   stringVars, besidesWide, op>>

\* `delete[] buffer` in the copying operations, ReleaseStringChars, return.
Wide_Free(t) ==
    /\ pc[t] = "w_free" /\ ~aborted
    /\ IF BuildsBuffer(wop)
         THEN /\ wbuf' = << >>
              /\ nDelW' = nDelW + 1
         ELSE UNCHANGED <<wbuf, nDelW>>
    /\ pc' = [pc EXCEPT ![t] = "returned"]
    /\ UNCHANGED <<wop, jstr, nNewW, libGot>>
    /\ UNCHANGED <<libVars, docVars, faultVars, objVars, renderVars,
                   stringVars, besidesWide, op, ret>>

\* One caller thread: any sequence of calls that pass a string.
NextWide ==
    \E t \in MainThread :
        \/ Wide_Call(t)
        \/ Wide_Lib(t)
        \/ Wide_Free(t)
        \/ Return(t)
SpecWide == Init /\ [][NextWide]_vars

\* ------------------------------------------------ form-fill environment
\* `new FormFillInfo(); memset(formInfo, 0, ...); formInfo->version = 1;`
NewFormFillInfo(d) == [NoForm EXCEPT !.doc = d, !.block = "allocated"]

\* Faulty variant: the callback deletes nothing
Release_Nothing(f) == f
\* `formInfo->Release = [](FPDF_FORMFILLINFO* pThis) { delete
\* (FormFillInfo*)pThis; }`: the callback, run on block f.
Release(f) ==
    [f EXCEPT !.block = "freed", !.frees = @ + 1, !.freedBy = "Release"]

\* FPDFDOC_ExitFormFillEnvironment(formHandle) on a live environment: the
\* library tears the environment down and calls the Release member of its
\* block when that is set.
LibExitFormFillEnvironment(f) ==
    LET g == [f EXCEPT !.env = "exited"]
    IN  IF f.release THEN Release(g) ELSE g

\* The form handles the caller was given.
FormHandlesGiven == {i \in 1..MaxFormCalls : forms[i].env # "none"}

\* nativeInitFormFillEnvironment: `if (!doc) return 0;` and the allocation of
\* the block.
FormInit_Call(t) ==
    /\ CanCall(t)
    /\ nForms < MaxFormCalls
    /\ fop' = "nativeInitFormFillEnvironment"
    /\ op' = [op EXCEPT ![t] = "nativeInitFormFillEnvironment"]
    /\ formHandle' = 0
    /\ \E docPtr \in {NullHandle} \cup libDocs :
        IF docPtr = NullHandle
          THEN /\ formInfo' = 0
               /\ ret' = [ret EXCEPT ![t] = 0]
               /\ pc' = [pc EXCEPT ![t] = "returned"]
               /\ UNCHANGED <<forms, nForms>>
          ELSE /\ nForms' = nForms + 1
               /\ formInfo' = nForms + 1
               /\ forms' = [forms EXCEPT ![nForms + 1] = NewFormFillInfo(docPtr)]
               /\ pc' = [pc EXCEPT ![t] = "ff_lib"]
               /\ UNCHANGED ret
    /\ UNCHANGED <<libVars, docVars, faultVars, objVars, renderVars,
                   stringVars, besidesForm>>

\* FPDFDOC_InitFormFillEnvironment(doc, formInfo): the library makes a new
\* environment over the block and returns its handle, or fails and returns
\* null.  It makes one on every call, whatever environments the document has.
FormInit_Lib(t) ==
    /\ pc[t] = "ff_lib" /\ ~aborted
    /\ \E created \in BOOLEAN :
        /\ forms' = IF created THEN [forms EXCEPT ![formInfo].env = "live"]
                    ELSE forms
        /\ formHandle' = IF created THEN formInfo ELSE 0
    /\ pc' = [pc EXCEPT ![t] = "ff_release"]
    /\ UNCHANGED <<nForms, fop, formInfo, op, ret>>
    /\ UNCHANGED <<libVars, docVars, faultVars, objVars, renderVars,
                   stringVars, besidesForm>>

\* `formInfo->Release = ...; return (jlong) formHandle;`
FormInit_Release(t) ==
    /\ pc[t] = "ff_release" /\ ~aborted
    /\ forms' = [forms EXCEPT ![formInfo].release = TRUE]
    /\ ret' = [ret EXCEPT ![t] = formHandle]
    /\ pc' = [pc EXCEPT ![t] = "returned"]
    /\ UNCHANGED <<nForms, fop, formInfo, formHandle, op>>
    /\ UNCHANGED <<libVars, docVars, faultVars, objVars, renderVars,
                   stringVars, besidesForm>>

\* nativeExitFormFillEnvironment: `if (formHandle)
\* FPDFDOC_ExitFormFillEnvironment(formHandle);`.  On the handle of an
\* environment already exited the library works on freed memory: it may go
\* on, or the process may be aborted.
FormExit(t) ==
    /\ CanCall(t)
    /\ fop' = "nativeExitFormFillEnvironment"
    /\ op' = [op EXCEPT ![t] = "nativeExitFormFillEnvironment"]
    /\ formInfo' = 0
    /\ \E formHandlePtr \in {0} \cup FormHandlesGiven :
        /\ formHandle' = formHandlePtr
        /\ IF formHandlePtr = 0
             THEN UNCHANGED <<forms, aborted>>
           ELSE IF forms[formHandlePtr].env = "live"
             THEN /\ forms' = [forms EXCEPT ![formHandlePtr] =
                                  LibExitFormFillEnvironment(@)]
                  /\ UNCHANGED aborted
           ELSE /\ \E crash \in BOOLEAN : aborted' = crash
                /\ UNCHANGED forms
    /\ ret' = [ret EXCEPT ![t] = 0]
    /\ pc' = [pc EXCEPT ![t] = "returned"]
    /\ UNCHANGED <<nForms, libArg>>
    /\ UNCHANGED <<libVars, docVars, objVars, renderVars, stringVars,
                   besidesForm>>

\* One caller thread: documents are created, environments made and exited.
NextForm ==
    \E t \in MainThread :
        \/ NewDocument(t)
        \/ FormInit_Call(t)
        \/ FormInit_Lib(t)
        \/ FormInit_Release(t)
        \/ FormExit(t)
        \/ Return(t)
SpecForm == Init /\ [][NextForm]_vars

\* --------------------------------------------------- nativeSaveDocument
\* The block sizes of a save: what the library asks the writer to write.
BlockSeqs == UNION {[1..n -> 0..MaxBlockSize] : n \in 0..MaxBlocks}

\* Faulty variant: a block counts as written when any byte of it was
WriteBlockImpl_AnyByte(size, wrote) == IF wrote > 0 \/ size = 0 THEN 1 ELSE 0
\* `return fwrite(pData, 1, size, pImpl->file) == size;`, fwrite having
\* written `wrote` bytes
WriteBlockImpl(size, wrote) == IF wrote = size THEN 1 ELSE 0

\* Entry: `if (!doc) return JNI_FALSE;`, fopen(cPath, "wb"),
\* `if (!file) { ...; return JNI_FALSE; }`, the writer is set up and
\* FPDF_SaveAsCopy(doc, &writer, 0) called.
Save_Call(t) ==
    /\ CanCall(t)
    /\ op' = [op EXCEPT ![t] = "nativeSaveDocument"]
    /\ \E docPtr \in {0, 1}, opened \in BOOLEAN :
        IF docPtr = 0 \/ ~opened
          THEN /\ file' = IF docPtr = 0 THEN "none" ELSE "failed"
               /\ blocks' = << >>
               /\ saveCalled' = FALSE
               /\ ret' = [ret EXCEPT ![t] = 0]
               /\ pc' = [pc EXCEPT ![t] = "returned"]
          ELSE /\ file' = "open"
               /\ \E bs \in BlockSeqs : blocks' = bs
               /\ saveCalled' = TRUE
               /\ pc' = [pc EXCEPT ![t] = "sv_write"]
               /\ UNCHANGED ret
    /\ nClose' = 0
    /\ lastWrite' = NoWrite
    /\ shortWrite' = FALSE
    /\ success' = FALSE
    /\ UNCHANGED <<libVars, docVars, faultVars, objVars, renderVars,
                   stringVars, besidesSave>>

\* The library calls writer.WriteBlock for its next block: fwrite writes all
\* or part of it.  When WriteBlock returns zero the library gives the save
\* up and returns false.
Save_Write(t) ==
    /\ pc[t] = "sv_write" /\ ~aborted
    /\ blocks # << >>
    /\ \E wrote \in 0..Head(blocks) :
        LET r == WriteBlockImpl(Head(blocks), wrote) IN
        /\ lastWrite' = [size |-> Head(blocks), wrote |-> wrote, r |-> r]
        /\ shortWrite' = (shortWrite \/ wrote # Head(blocks))
        /\ IF r = 0
             THEN /\ blocks' = << >>
                  /\ pc' = [pc EXCEPT ![t] = "sv_close"]
             ELSE /\ blocks' = Tail(blocks)
                  /\ UNCHANGED pc
    /\ UNCHANGED <<file, nClose, saveCalled, success, op, ret>>
    /\ UNCHANGED <<libVars, docVars, faultVars, objVars, renderVars,
                   stringVars, besidesSave>>

\* Every block was written: FPDF_SaveAsCopy returns, true unless the library
\* failed for a reason of its own.
Save_LibReturns(t) ==
    /\ pc[t] = "sv_write" /\ ~aborted
    /\ blocks = << >>
    /\ \E ok \in BOOLEAN : success' = ok
    /\ pc' = [pc EXCEPT ![t] = "sv_close"]
    /\ UNCHANGED <<file, nClose, blocks, lastWrite, shortWrite, saveCalled,
                   op, ret>>
    /\ UNCHANGED <<libVars, docVars, faultVars, objVars, renderVars,
                   stringVars, besidesSave>>

\* `fclose(file); ...; return success ? JNI_TRUE : JNI_FALSE;`
Save_Close(t) ==
    /\ pc[t] = "sv_close" /\ ~aborted
    /\ file' = "closed"
    /\ nClose' = nClose + 1
    /\ ret' = [ret EXCEPT ![t] = IF success THEN 1 ELSE 0]
    /\ pc' = [pc EXCEPT ![t] = "returned"]
    /\ UNCHANGED <<blocks, lastWrite, shortWrite, saveCalled, success, op>>
    /\ UNCHANGED <<libVars, docVars, faultVars, objVars, renderVars,
                   stringVars, besidesSave>>

\* One caller thread: any sequence of save calls.
NextSave ==
    \E t \in MainThread :
        \/ Save_Call(t)
        \/ Save_Write(t)
        \/ Save_LibReturns(t)
        \/ Save_Close(t)
        \/ Return(t)
SpecSave == Init /\ [][NextSave]_vars

\* ------------------------------------- queries into a caller's array
\* The queries that write their answer into an array the caller passed.
ArrayQueries ==
    {"nativeDeviceToPage", "nativePageToDevice", "nativeGetCharBox",
     "nativeGetLinkRect", "nativeGetAnnotRect", "nativeTextGetRect",
     "nativeGetPageMediaBox", "nativeGetPageCropBox", "nativeGetPageBleedBox"}

\* The queries that test what the library call returned before they write;
\* the others drop it.
ChecksResult(name) ==
    name \notin {"nativeDeviceToPage", "nativePageToDevice", "nativeGetCharBox"}

\* The elements a query writes: a point, or a box.
OutCount(name) ==
    IF name \in {"nativeDeviceToPage", "nativePageToDevice"} THEN 2 ELSE 4

\* The values of array elements and of out-parameters.
Values == 0..MaxValue
ArraysOf(n) == [1..n -> Values]

\* The order in which a query stores the library's out-parameters:
\* nativeGetCharBox gets (left, right, bottom, top) and stores
\* (left, top, right, bottom); the others store them as they come.
Stored(name, v) ==
    IF name = "nativeGetCharBox" THEN <<v[1], v[4], v[2], v[3]>> ELSE v

\* Entry: the null test of the handle, the declaration of the out-locals,
\* which initializes nothing, and the library call, which sets them when it
\* succeeds and leaves them when it fails; then the test of its result in
\* the queries that have one.
Array_Call(t) ==
    /\ CanCall(t)
    /\ \E name \in ArrayQueries, handlePtr \in {0, 1} :
        \E a \in ArraysOf(OutCount(name)) :
            /\ aop' = name
            /\ op' = [op EXCEPT ![t] = name]
            /\ arr' = a
            /\ arrAtCall' = a
            /\ IF handlePtr = 0
                 THEN /\ locals' = << >>
                      /\ libCalled' = FALSE
                      /\ libOk' = FALSE
                      /\ libOut' = << >>
                      /\ ret' = [ret EXCEPT ![t] = 0]
                      /\ pc' = [pc EXCEPT ![t] = "returned"]
                 ELSE \E ok \in BOOLEAN, v \in ArraysOf(OutCount(name)) :
                      /\ locals' = v
                      /\ libCalled' = TRUE
                      /\ libOk' = ok
                      /\ libOut' = IF ok THEN v ELSE << >>
                      /\ ret' = [ret EXCEPT ![t] = 0]
                      /\ pc' = [pc EXCEPT ![t] =
                            IF ChecksResult(name) /\ ~ok THEN "returned"
                            ELSE "a_write"]
    /\ UNCHANGED <<libVars, docVars, faultVars, objVars, renderVars,
                   stringVars, besidesArray>>

\* Get<Type>ArrayElements, `body[i] = ...` for every out-local,
\* Release<Type>ArrayElements with mode 0, and the return.
Array_Write(t) ==
    /\ pc[t] = "a_write" /\ ~aborted
    /\ arr' = Stored(aop, locals)
    /\ ret' = [ret EXCEPT ![t] = 1]
    /\ pc' = [pc EXCEPT ![t] = "returned"]
    /\ UNCHANGED <<aop, arrAtCall, locals, libCalled, libOk, libOut, op>>
    /\ UNCHANGED <<libVars, docVars, faultVars, objVars, renderVars,
                   stringVars, besidesArray>>

\* One caller thread: any sequence of such queries.
NextArray ==
    \E t \in MainThread :
        \/ Array_Call(t)
        \/ Array_Write(t)
        \/ Return(t)
SpecArray == Init /\ [][NextArray]_vars

\* ------------------------------------ nativeOpenDocument, run to its end
\* One caller thread opening documents from file descriptors.
NextRead ==
    \E t \in MainThread :
        \/ OpenDocument_Call(t)
        \/ OpenDocument_Read(t)
        \/ OpenDocument_Load(t)
        \/ OpenDocument_Register(t)
        \/ Return(t)

\* A thread inside nativeOpenDocument keeps running: the read loop takes its
\* next iteration, and the code after the loop is executed.  Nothing obliges
\* the caller to make a call.
ReadFairness ==
    \A t \in MainThread :
        /\ WF_vars(OpenDocument_Read(t))
        /\ WF_vars(OpenDocument_Load(t))
        /\ WF_vars(OpenDocument_Register(t))
SpecRead == Init /\ [][NextRead]_vars /\ ReadFairness

\* =====================================================================
\* Properties
\* =====================================================================
Range(f) == {f[x] : x \in DOMAIN f}

Quiet == \A t \in MainThread : pc[t] \in {"idle", "returned"}

\* The buffer the library reads for an open document is live.
OpenDocBuffersLive ==
    \A h \in libDocs : docBuf[h] # NoBuffer => docBuf[h] \in heap

\* The live buffers are exactly the registered ones, none deleted twice.
NoBufferOutstanding == heap = Range(g_docBuffers) /\ ~doubleFree

BufferBacked(h) == h \in libDocs /\ docKind[h] \in {"fd", "mem"}

\* C1: over any sequence of open and close calls a document's buffer is
\* freed exactly once: never while the library still has the document open,
\* never twice (also when a handle value is closed again), and between calls
\* every live buffer belongs to an open document, so that none is left once
\* every document is closed.
C1_BufferFreedExactlyOnce ==
    /\ ~doubleFree
    /\ OpenDocBuffersLive
    /\ Quiet => /\ heap = {docBuf[h] : h \in {x \in libDocs : BufferBacked(x)}}
                /\ Cardinality(DOMAIN g_docBuffers) = Cardinality(heap)
                /\ (libDocs = {} => heap = {} /\ DOMAIN g_docBuffers = {})

\* A handle value was closed a second time while a buffer-backed document is
\* open, and the call came back.
C1_Witness ==
    /\ Quiet /\ ~aborted
    /\ \E t \in MainThread :
          op[t] = "nativeCloseDocument" /\ closing[t] = "stale"
    /\ \E h \in libDocs : BufferBacked(h)

\* C2: between calls g_docBuffers has an entry for a handle iff the handle is
\* an open document opened from a descriptor or from bytes; opening a document
\* by path, creating a new one, or closing such a document leaves
\* g_docBuffers as it was.
C2_EntryIffBufferBacked ==
    Quiet =>
      /\ DOMAIN g_docBuffers = {h \in Handles : BufferBacked(h)}
      /\ \A t \in MainThread :
           \/ op[t] \in {"nativeOpenDocumentPath", "nativeNewDocument"}
           \/ (op[t] = "nativeCloseDocument" /\ closing[t] \in {"path", "new"})
           => g_docBuffers = gAtCall[t]

\* A document opened by path was closed while another document has an entry.
C2_Witness ==
    /\ Quiet
    /\ \E t \in MainThread :
          op[t] = "nativeCloseDocument" /\ closing[t] = "path"
    /\ DOMAIN g_docBuffers # {}

\* C3: when the loader rejects the bytes, the call returns 0, the buffer of
\* the attempt is freed exactly once and g_docBuffers is as before the call.
C3_LoadFailureFreesBuffer ==
    \A t \in MainThread :
        /\ pc[t] = "returned"
        /\ op[t] \in {"nativeOpenDocument", "nativeOpenMemDocument"}
        /\ cause[t] = "load"
        => /\ ret[t] = NullHandle
           /\ NoBufferOutstanding
           /\ g_docBuffers = gAtCall[t]

\* The loader rejected a document while another one keeps its entry.
C3_Witness ==
    \E t \in MainThread :
        /\ pc[t] = "returned" /\ op[t] = "nativeOpenMemDocument"
        /\ cause[t] = "load" /\ loaderCalled[t]
        /\ DOMAIN g_docBuffers # {}

\* C4: nativeCloseDocument closes the document in the library first; only in
\* the step after that, and iff g_docBuffers has an entry for the handle, is
\* the buffer freed and the entry erased; a null handle changes nothing.  So
\* no open document of the library has a freed buffer.
C4_CloseBeforeFree ==
    /\ [](OpenDocBuffersLive
          /\ \A t \in MainThread :
                pc[t] = "cd_free" => doc[t] # NullHandle /\ doc[t] \notin libDocs)
    /\ [][\A t \in MainThread :
            /\ (pc[t] = "cd_free" /\ pc'[t] = "returned") =>
                 IF doc[t] \in DOMAIN g_docBuffers
                   THEN /\ heap' = heap \ {g_docBuffers[doc[t]]}
                        /\ DOMAIN g_docBuffers' = DOMAIN g_docBuffers \ {doc[t]}
                   ELSE heap' = heap /\ g_docBuffers' = g_docBuffers
            /\ (pc[t] = "idle" /\ op'[t] = "nativeCloseDocument") =>
                 /\ heap' = heap /\ g_docBuffers' = g_docBuffers
                 /\ closing'[t] = "null" =>
                      pc'[t] = "returned" /\ libDocs' = libDocs
                      /\ libArg' = libArg
         ]_vars

\* The library has closed a buffer-backed document and the buffer is about to
\* be freed.
C4_Witness ==
    \E t \in MainThread :
        pc[t] = "cd_free" /\ doc[t] \in DOMAIN g_docBuffers

\* C5: nativeOpenDocument hands the buffer to the loader only after reading
\* exactly fileSize bytes; a read of 0 or less, or a size of 0 or less, ends
\* the call at once with 0, with the buffer freed, the loader not invoked and
\* g_docBuffers as before.
C5_ShortReadIsFatal ==
    \A t \in MainThread :
        /\ pc[t] = "od_load" => ptr[t] = fileSize[t] /\ remaining[t] = 0
        /\ pc[t] = "od_read" => ptr[t] + remaining[t] = fileSize[t]
                                /\ remaining[t] > 0 /\ cause[t] = "none"
        /\ (op[t] = "nativeOpenDocument" /\ cause[t] \in {"size", "read"})
           => /\ pc[t] = "returned"
              /\ ret[t] = NullHandle
              /\ ~loaderCalled[t]
              /\ NoBufferOutstanding
              /\ g_docBuffers = gAtCall[t]

\* A read failed while another document keeps its buffer.
C5_Witness ==
    \E t \in MainThread :
        /\ pc[t] = "returned" /\ op[t] = "nativeOpenDocument"
        /\ cause[t] = "read" /\ heap # {}

\* C6: with handle values reused and opens and closes on different threads,
\* no buffer of an open document is freed, and no call registers a buffer
\* under a handle value that still has an entry.
C6_NoStaleKeyOnReuse ==
    /\ OpenDocBuffersLive
    /\ \A t \in Threads :
          pc[t] \in {"od_register", "omd_register"}
             => doc[t] \notin DOMAIN g_docBuffers

\* C7: in a single-threaded sequence of calls with no more destroys than
\* inits in any prefix, the library is initialized exactly by the calls that
\* take the counter from 0 to 1 and destroyed exactly by those that bring it
\* back to 0, and it is initialized exactly while the counter is positive.
C7_RefCountDrivesLibrary ==
    (Quiet /\ ~underflow) =>
        /\ libraryReferenceCount = nInit - nDestroy
        /\ libInitialized <=> libraryReferenceCount > 0
        /\ libFaults = {}
        /\ \A t \in MainThread :
             /\ op[t] = "nativeInitLibrary" =>
                   (didLib[t] <=> libraryReferenceCount = 1)
             /\ op[t] = "nativeDestroyLibrary" =>
                   (didLib[t] <=> libraryReferenceCount = 0)

\* The counter went up to 2 and came back to 0, where the library was
\* destroyed.
C7_Witness ==
    /\ Quiet /\ ~underflow /\ nInit >= 2
    /\ \E t \in MainThread : op[t] = "nativeDestroyLibrary" /\ didLib[t]

\* C8: under concurrent init and destroy calls the counter ends at the number
\* of inits minus the number of destroys, the library is never initialized
\* twice without a destroy in between and never destroyed while the counter
\* is positive.
C8_RefCountThreadSafe ==
    /\ (\A t \in Threads : pc[t] \in {"idle", "returned"})
          => libraryReferenceCount = nInit - nDestroy
    /\ "doubleInit" \notin libFaults
    /\ "destroyInUse" \notin libFaults

\* C9: an operation given a null handle returns its sentinel without making
\* a library call with that handle.
C9_NullHandleShortCircuits ==
    \A t \in MainThread :
        (pc[t] = "returned" /\ (argState[t] = "null" \/ closing[t] = "null"))
            => libArg[t] = "none" /\ ret[t] = 0

\* C10: an operation given the value of a handle that was closed, a second
\* close included, makes no library call with it.
C10_ClosedHandleFailsFast ==
    \A t \in MainThread :
        (argState[t] = "stale" \/ closing[t] = "stale") => libArg[t] = "none"

\* C11: every open handle derived from a document (page, text page, search
\* session, annotation) has an open owning document: closing a document
\* leaves no handle derived from it open.
C11_DerivedHandlesHaveOpenDocument ==
    \A k \in ObjKinds \ {"pageobj"} : \A h \in ObjHandles :
        objs[k][h].st = "live" => objs[k][h].doc \in libDocs

\* A surface operation of the render family has come back.
SurfaceCallReturned(t) == pc[t] = "returned" /\ rop \in SurfaceOps

\* C12: while a progressive render span is open (started, not yet closed) the
\* surface bound by the start call is locked and its library bitmap is alive,
\* and the library never rasterizes into unlocked pixels or through a
\* destroyed bitmap.
C12_SurfaceHeldForSpan ==
    /\ ~rasterBad
    /\ \A t \in MainThread :
          (pc[t] \in {"idle", "returned"} /\ spanCtx # "none")
              => pixelsLocked /\ fpdfBitmap = "alive"

\* C13: a progressive start whose caller wants an always-true pause predicate
\* consulted does not reach a terminal status in the start call; with an
\* always-false predicate or none the start call reaches a terminal status.
C13_PausePredicateHonoured ==
    \A t \in MainThread :
        (pc[t] = "returned" /\ rop = nativeRenderPageBitmapStart /\ rasterCalled)
            => /\ (probe = "alwaysTrue" /\ status # "FPDF_RENDER_FAILED")
                     => status = "FPDF_RENDER_TOBECONTINUED"
               /\ probe \in {"none", "alwaysFalse"}
                     => status \in {"FPDF_RENDER_DONE", "FPDF_RENDER_FAILED"}

\* C14: a progressive start on a page whose previous span was not closed
\* yields FPDF_RENDER_FAILED and does not reach the rasterizer.
C14_StartOnOpenSpanIsError ==
    \A t \in MainThread :
        (pc[t] = "returned" /\ rop = nativeRenderPageBitmapStart
           /\ spanAtCall # "none")
            => ~rasterCalled /\ status = "FPDF_RENDER_FAILED"

\* C15: in nativeRenderPageBitmap, nativeFPDFFFLDraw and
\* nativeRenderPageBitmapStart every successful lock of the pixels is matched
\* by one unlock before the call returns, the library bitmap is destroyed
\* before that unlock, and the rasterizer runs only on locked pixels through
\* a live bitmap.
C15_LockUnlockPaired ==
    \A t \in MainThread :
        /\ nUnlock <= nLock /\ nLock <= 1
        /\ pc[t] = "idle" => ~pixelsLocked
        /\ SurfaceCallReturned(t) =>
              ~pixelsLocked /\ nLock = nUnlock /\ fpdfBitmap # "alive"
        /\ pc[t] = "r_raster" => pixelsLocked /\ fpdfBitmap = "alive"
        /\ pc[t] = "r_unlock" => pixelsLocked /\ fpdfBitmap # "alive"
        /\ rop \in SurfaceOps => ~rasterBad
        /\ (rop \in SurfaceOps /\ rasterCalled) => nLock = 1

\* A progressive start locked the pixels, rasterized, and unlocked them.
C15_Witness ==
    \E t \in MainThread :
        /\ SurfaceCallReturned(t) /\ rop = nativeRenderPageBitmapStart
        /\ rasterCalled /\ nLock = 1 /\ nUnlock = 1
        /\ fpdfBitmap = "destroyed"

\* C16: for a surface whose format is not RGBA_8888 the three surface
\* operations never lock the pixels, create no library bitmap, never call the
\* rasterizer and write no pixel; the start operation returns
\* FPDF_RENDER_FAILED and the two void operations just return.
C16_OtherFormatsRejected ==
    \A t \in MainThread :
        (rop \in SurfaceOps /\ info # NoInfo
           /\ info.format # "ANDROID_BITMAP_FORMAT_RGBA_8888")
            => /\ pc[t] = "returned"
               /\ nLock = 0 /\ ~pixelsLocked
               /\ fpdfBitmap # "alive"
               /\ ~rasterCalled
               /\ written = {} /\ white = {}
               /\ status = IF rop = nativeRenderPageBitmapStart
                             THEN "FPDF_RENDER_FAILED" ELSE "void"

\* A progressive start was given an RGB_565 surface of non-zero size.
C16_Witness ==
    \E t \in MainThread :
        /\ SurfaceCallReturned(t) /\ rop = nativeRenderPageBitmapStart
        /\ info.format = "ANDROID_BITMAP_FORMAT_RGB_565" /\ info.width > 0
        /\ status = "FPDF_RENDER_FAILED"

\* C17: every surface operation that calls the rasterizer passes it the
\* byte-order-reversal flag whatever the caller's flags, and
\* nativeRenderPageBitmap passes the annotation flag iff renderAnnot.
C17_ByteOrderFlagAlwaysSet ==
    (rop \in SurfaceOps /\ rasterCalled)
        => /\ "FPDF_REVERSE_BYTE_ORDER" \in rflags
           /\ rop = nativeRenderPageBitmap
                 => ("FPDF_ANNOT" \in rflags <=> renderAnnot)

\* C18: in nativeRenderPageBitmap and nativeRenderPageBitmapStart the
\* rasterizer is called only after the opaque-white fill, and every pixel of
\* the rendered region was filled.
C18_WhiteFillBeforeRaster ==
    \A t \in MainThread :
        (rop \in {nativeRenderPageBitmap, nativeRenderPageBitmapStart})
            => /\ pc[t] = "r_fill" => ~rasterCalled /\ written = {}
               /\ pc[t] = "r_raster" =>
                     RegionPixels(info.width, region) \subseteq white
               /\ rasterCalled =>
                     /\ written \subseteq white
                     /\ white = 1..info.width

\* nativeRenderPageBitmap rasterized a region of a filled surface.
C18_Witness ==
    \E t \in MainThread :
        /\ pc[t] = "returned" /\ rop = nativeRenderPageBitmap
        /\ rasterCalled /\ written # {} /\ written # white

\* A getter came back after calling the library with a non-null handle.
GetterReturned(t) == pc[t] = "returned" /\ getter # NoGetter /\ nQuery = 1

\* C19: a string getter whose size query returns 0 returns the empty string,
\* makes no fill call and allocates no buffer; no fill call is made before
\* the size query.
C19_SizeZeroYieldsEmptyString ==
    \A t \in MainThread :
        /\ nFill > 0 => nQuery = 1
        /\ (GetterReturned(t) /\ querySize = 0)
              => /\ result = JavaString(<< >>)
                 /\ nFill = 0
                 /\ allocated = 0

\* C20: a string that a getter fetched from a UTF-16 field of the library
\* with a fill call has writtenBytes / 2 - 1 characters, writtenBytes being
\* the bytes the fill call returned.
C20_LengthIsWrittenHalfMinusOne ==
    \A t \in MainThread :
        (GetterReturned(t) /\ nFill = 1 /\ getter.enc = "utf16")
            => /\ ~result.isNull
               /\ Len(result.chars) = BytesOf(getter, writtenCount) \div 2 - 1

\* C21: when the fill call of a string getter returns fewer bytes than the
\* size query announced, the getter returns an empty result, and the string
\* it builds takes no 16-bit unit from beyond the bytes the fill call
\* reported written.
C21_ShortFillYieldsEmptyResult ==
    \A t \in MainThread :
        (GetterReturned(t) /\ nFill = 1 /\ writtenCount < querySize)
            => /\ result.chars = << >>
               /\ getter.enc = "utf16"
                     => 2 * Len(result.chars) <= BytesOf(getter, writtenCount)

\* C22: every operation that hands a caller string of n units to the library
\* as a wide string hands it a buffer this layer built, of n + 1 units, the
\* first n the caller's units in order and the last 0, and deletes that
\* buffer exactly once, after the library call.
C22_WideStringBuiltAndFreedOnce ==
    \A t \in MainThread :
        /\ libGot.passed
              => /\ libGot.built
                 /\ Len(libGot.units) = Len(jstr) + 1
                 /\ \A i \in 1..Len(jstr) : libGot.units[i] = jstr[i]
                 /\ libGot.units[Len(jstr) + 1] = 0
        /\ (pc[t] = "w_lib" /\ wop # "none") => nDelW = 0
        /\ (pc[t] = "returned" /\ libGot.passed) => nNewW = 1 /\ nDelW = 1

\* C23: the callback block of every nativeInitFormFillEnvironment call that
\* yielded a form handle is deleted at most once, exactly when the
\* environment of that handle is exited and then by the Release callback the
\* library runs, never by a delete of this layer; and the Release callback
\* is set in the block when the call returns the handle.
C23_BlockFreedByReleaseOnExit ==
    /\ \A i \in 1..MaxFormCalls :
          /\ forms[i].frees <= 1
          /\ forms[i].freedBy \in {"none", "Release"}
          /\ forms[i].env = "live" => forms[i].block = "allocated"
          /\ forms[i].env = "exited"
                => forms[i].block = "freed" /\ forms[i].freedBy = "Release"
          /\ forms[i].block = "freed" => forms[i].env = "exited"
    /\ \A t \in MainThread :
          (pc[t] = "returned" /\ fop = "nativeInitFormFillEnvironment"
                /\ ret[t] # 0)
              => /\ forms[ret[t]].env = "live"
                 /\ forms[ret[t]].release

\* An environment was made, its handle returned, and exited again: the exit
\* call came back with the block deleted.
C23_Witness ==
    \E t \in MainThread :
        /\ pc[t] = "returned" /\ fop = "nativeExitFormFillEnvironment"
        /\ formHandle # 0
        /\ forms[formHandle].env = "exited"
        /\ forms[formHandle].frees = 1
        /\ ~aborted

\* C24: every open document has at most one live form-fill environment and
\* at most one callback block: a nativeInitFormFillEnvironment call on a
\* document that has a live environment makes no second one.
C24_OneEnvironmentPerDocument ==
    \A d \in libDocs :
        /\ Cardinality({i \in 1..MaxFormCalls :
                forms[i].doc = d /\ forms[i].env = "live"}) <= 1
        /\ Cardinality({i \in 1..MaxFormCalls :
                forms[i].doc = d /\ forms[i].block = "allocated"}) <= 1

\* C28: between calls the callback blocks still allocated are as many as the
\* live form handles: a nativeInitFormFillEnvironment call that returns 0
\* leaves no block behind.
C28_BlocksMatchLiveHandles ==
    (\A t \in Threads : pc[t] \in {"idle", "returned"})
        => Cardinality({i \in 1..MaxFormCalls : forms[i].block = "allocated"})
             = Cardinality({i \in 1..MaxFormCalls : forms[i].env = "live"})

\* C25: nativeSaveDocument returns true only if the file was opened and every
\* block the library asked to write was written in full; the write callback
\* returns zero for every block fwrite did not write in full; when the file
\* cannot be opened the call returns false and the library save is not
\* called; and a file that was opened is closed exactly once before the call
\* returns, a file that was not is never closed.
C25_SaveTrueOnlyIfAllWritten ==
    \A t \in MainThread :
        /\ lastWrite.wrote # lastWrite.size => lastWrite.r = 0
        /\ nClose <= 1
        /\ nClose = 1 => file = "closed"
        /\ (pc[t] = "returned" /\ op[t] = "nativeSaveDocument")
              => /\ ret[t] = 1 => (file = "closed" /\ ~shortWrite)
                 /\ file = "failed" => (ret[t] = 0 /\ ~saveCalled)
                 /\ file \in {"none", "failed", "closed"}
                 /\ file = "closed" <=> nClose = 1
                 /\ saveCalled => file = "closed"

\* A save whose block was written short came back: false, the file closed.
C25_Witness ==
    \E t \in MainThread :
        /\ pc[t] = "returned" /\ op[t] = "nativeSaveDocument"
        /\ shortWrite /\ lastWrite.wrote > 0
        /\ ret[t] = 0 /\ nClose = 1

\* C26: when the allocation of the source buffer fails in nativeOpenDocument
\* or nativeOpenMemDocument, the call returns 0 and nothing is thrown out of
\* the native frame, g_docBuffers is as it was at the call, no buffer of the
\* call is allocated, and the password characters and the array elements
\* taken from the caller have been released.
C26_AllocFailureReturnsZero ==
    \A t \in Threads :
        cause[t] = "alloc"
            => /\ pc[t] = "returned" /\ ret[t] = NullHandle
               /\ ~aborted
               /\ g_docBuffers = gAtCall[t]
               /\ buffer[t] = NoBuffer
               /\ cPassword[t] # "held"
               /\ elements[t] # "held"

\* C27: after any sequence of nativeInitLibrary and nativeDestroyLibrary
\* calls from one thread, also one with more destroy than init calls, the
\* library is initialized whenever a nativeInitLibrary call has just
\* returned.
C27_InitializedAfterInit ==
    \A t \in MainThread :
        (pc[t] = "returned" /\ op[t] = "nativeInitLibrary") => libInitialized

\* C29: a query that answers into a caller's array leaves the array as it
\* was at the call when the handle is null and when the library call reports
\* failure; when the library call succeeds the array holds the values the
\* library produced.
C29_ArrayUnchangedOnFailure ==
    \A t \in MainThread :
        (pc[t] = "returned" /\ aop # "none")
            => /\ (~libCalled \/ ~libOk) => arr = arrAtCall
               /\ (libCalled /\ libOk) => arr = Stored(aop, libOut)

\* An iteration of the read loop of nativeOpenDocument returns 0 from the
\* call, or leaves fewer bytes remaining, and not less than 0.
ReadIterationDecreases ==
    \A t \in MainThread :
        pc[t] = "od_read"
            => \/ pc'[t] = "returned" /\ ret'[t] = NullHandle
               \/ /\ pc'[t] \in {"od_read", "od_load"}
                  /\ remaining'[t] < remaining[t]
                  /\ remaining'[t] >= 0
                  /\ (pc'[t] = "od_load") = (remaining'[t] = 0)

\* C30: the read loop of nativeOpenDocument terminates: whatever the file
\* size and the results of read, the loop runs only while bytes remain, each
\* iteration returns from the call or strictly decreases the remaining
\* count, which stays at or above 0, and the call returns in the end, 0 or a
\* document handle.
C30_ReadLoopTerminates ==
    /\ [](\A t \in MainThread :
            /\ pc[t] = "od_read"
                  => remaining[t] > 0 /\ remaining[t] <= fileSize[t]
            /\ (pc[t] = "returned" /\ op[t] = "nativeOpenDocument")
                  => ret[t] \in {NullHandle} \cup libDocs)
    /\ [][ReadIterationDecreases]_vars
    /\ \A t \in MainThread : (pc[t] = "od_read") ~> (pc[t] = "returned")

\* The loop is at its second iteration after a partial read.
C30_Witness ==
    \E t \in MainThread :
        /\ pc[t] = "od_read"
        /\ remaining[t] > 0 /\ remaining[t] < fileSize[t]

====
